---- MODULE Spec2Model ----
(***************************************************************************)
(* EchoPrint AI - target detection engine (lib/detection/target-detector)  *)
(* over the profile catalog (lib/targets/profiles).                        *)
(*                                                                         *)
(* Strings are TLA+ strings; String.prototype.includes is computed on them *)
(* character by character.  The Russian description / recommendation       *)
(* templates are represented by an ASCII key for the template followed by  *)
(* the values interpolated into it.                                        *)
(***************************************************************************)
EXTENDS Integers, Sequences, FiniteSets, TLC

(***************************************************************************)
(* Bounds of the explored inputs.                                          *)
(***************************************************************************)
\* at most this many observation groups of DomainGroups make up pageContext.domains
MaxDomainGroups == 2
\* at most this many entries of ScriptPool make up pageContext.scripts
MaxScripts == 1

(***************************************************************************)
(* The catalog: lib/targets/profiles.  Only the fields the detector reads  *)
(* are kept (description, category, apiEndpoints, detectionTriggers,       *)
(* knownVulnerabilities, regionSpecific and dataTransferDestination are    *)
(* never read by target-detector.ts).                                      *)
(***************************************************************************)
AliExpressProfile ==
  [ id |-> "aliexpress",
    name |-> "AliExpress (EU/Global)",
    riskLevel |-> "CRITICAL",
    trackingInfra |->
      [ primaryDomains |-> << "g.alicdn.com", "log.mmstat.com", "atanx.alicdn.com",
                              "gtd.alicdn.com", "acjs.aliyun.com", "ynuf.alipay.com",
                              "aeis.alicdn.com", "afcs.alicdn.com" >>,
        thirdPartyTrackers |-> << "criteo.com", "appsflyer.com", "google-analytics.com",
                                  "facebook.com", "rtbhouse.com", "moloco.com",
                                  "remerge.io", "tiktok.com", "taboola.com",
                                  "outbrain.com" >>,
        jsLibraries |-> << "aplus_v2.js", "aplus_cplugin.js",
                           "aplus_plugin_aefront/index.js", "sufei_data/index.js",
                           "AWSC/awsc.js", "ac.js", "retcode.js" >> ],
    fingerprintMethods |->
      [ canvas |-> TRUE, webgl |-> TRUE, audio |-> TRUE, fonts |-> TRUE,
        sensors |-> FALSE, battery |-> TRUE, webrtc |-> FALSE, behavioral |-> TRUE ],
    storageKeys |-> << "cna", "isg", "xman_f", "xman_t", "xman_us_f", "xman_us_t",
                       "ali_apache_id", "ali_apache_track", "ali_beacon_id",
                       "x5sec", "x5secdata", "baxia_sec_cookie", "sgcookie",
                       "JSESSIONID", "XSRF-TOKEN", "acs_usuc_t", "_m_h5_tk",
                       "_m_h5_tk_enc", "AB_STG", "AB_DATA_TRACK", "AB_ALG", "ali_ab",
                       "intl_locale", "intl_common_forever", "aep_common_f",
                       "aep_usuc_f" >>,
    countermeasures |->
      [ blockDomains |-> TRUE, spoofFingerprint |-> TRUE,
        clearCookies |-> TRUE, useContainer |-> TRUE ] ]

AmazonProfile ==
  [ id |-> "amazon",
    name |-> "Amazon",
    riskLevel |-> "HIGH",
    trackingInfra |->
      [ primaryDomains |-> << "amazon.com", "amazon-adsystem.com", "amazonaws.com",
                              "cloudfront.net", "assoc-amazon.com" >>,
        thirdPartyTrackers |-> << "doubleclick.net", "google-analytics.com",
                                  "facebook.com", "criteo.com", "advertising.com" >>,
        jsLibraries |-> << "amazon-cognito-identity.min.js", "amazon-login.js",
                           "apex.js", "ammers.js" >> ],
    fingerprintMethods |->
      [ canvas |-> TRUE, webgl |-> TRUE, audio |-> FALSE, fonts |-> TRUE,
        sensors |-> FALSE, battery |-> FALSE, webrtc |-> FALSE, behavioral |-> TRUE ],
    storageKeys |-> << "session-id", "session-id-time", "ubid-main", "ubid-tsv",
                       "x-main", "at-main", "sess-at-main", "csrfToken",
                       "apay-session-id", "apay-device-id" >>,
    countermeasures |->
      [ blockDomains |-> TRUE, spoofFingerprint |-> FALSE,
        clearCookies |-> TRUE, useContainer |-> FALSE ] ]

FacebookProfile ==
  [ id |-> "facebook",
    name |-> "Facebook / Meta",
    riskLevel |-> "CRITICAL",
    trackingInfra |->
      [ primaryDomains |-> << "facebook.com", "fbcdn.net", "facebook.net", "fb.com",
                              "messenger.com", "instagram.com", "whatsapp.com" >>,
        thirdPartyTrackers |-> << "doubleclick.net", "google-analytics.com",
                                  "googleadservices.com", "bing.com" >>,
        jsLibraries |-> << "fbevents.js", "connect.facebook.net",
                           "recaptcha__en.js", "detectproxy.js" >> ],
    fingerprintMethods |->
      [ canvas |-> TRUE, webgl |-> TRUE, audio |-> TRUE, fonts |-> TRUE,
        sensors |-> FALSE, battery |-> FALSE, webrtc |-> TRUE, behavioral |-> TRUE ],
    storageKeys |-> << "fr", "datr", "sb", "c_user", "xs", "wd", "dpr",
                       "presence", "locale", "reg_ext_ref", "reg_fb_ref" >>,
    countermeasures |->
      [ blockDomains |-> TRUE, spoofFingerprint |-> TRUE,
        clearCookies |-> TRUE, useContainer |-> TRUE ] ]

GoogleProfile ==
  [ id |-> "google",
    name |-> "Google",
    riskLevel |-> "CRITICAL",
    trackingInfra |->
      [ primaryDomains |-> << "google.com", "google-analytics.com",
                              "googletagmanager.com", "googleadservices.com",
                              "googlesyndication.com", "doubleclick.net",
                              "gstatic.com", "youtube.com" >>,
        thirdPartyTrackers |-> << >>,
        jsLibraries |-> << "analytics.js", "gtag.js", "gtm.js",
                           "recaptcha__en.js", "cbt.js" >> ],
    fingerprintMethods |->
      [ canvas |-> TRUE, webgl |-> TRUE, audio |-> TRUE, fonts |-> TRUE,
        sensors |-> FALSE, battery |-> FALSE, webrtc |-> FALSE, behavioral |-> TRUE ],
    storageKeys |-> << "_ga", "_gid", "_gat", "__utma", "__utmb", "__utmc", "__utmz",
                       "SID", "HSID", "SSID", "APISID", "SAPISID", "NID", "1P_JAR" >>,
    countermeasures |->
      [ blockDomains |-> TRUE, spoofFingerprint |-> FALSE,
        clearCookies |-> TRUE, useContainer |-> FALSE ] ]

TikTokProfile ==
  [ id |-> "tiktok",
    name |-> "TikTok",
    riskLevel |-> "CRITICAL",
    trackingInfra |->
      [ primaryDomains |-> << "tiktok.com", "tiktokv.com", "tiktokcdn.com",
                              "byteoversea.com", "bytedance.com", "ibytedtos.com" >>,
        thirdPartyTrackers |-> << "facebook.com", "google-analytics.com",
                                  "adjust.com", "appsdt.com" >>,
        jsLibraries |-> << "analytics.js", "pixel.js", "ttq.js" >> ],
    fingerprintMethods |->
      [ canvas |-> TRUE, webgl |-> TRUE, audio |-> TRUE, fonts |-> TRUE,
        sensors |-> TRUE, battery |-> TRUE, webrtc |-> FALSE, behavioral |-> TRUE ],
    storageKeys |-> << "sid_tt", "sid_guard", "uid_tt", "odin_tt",
                       "sessionid", "tt_webid", "tt_webid_v2" >>,
    countermeasures |->
      [ blockDomains |-> TRUE, spoofFingerprint |-> TRUE,
        clearCookies |-> TRUE, useContainer |-> TRUE ] ]

ALL_TARGET_PROFILES ==
  << AliExpressProfile, AmazonProfile, FacebookProfile, GoogleProfile, TikTokProfile >>

(***************************************************************************)
(* Sequence helpers (Array.prototype.filter / map / reduce / slice).       *)
(***************************************************************************)
Range(s) == { s[i] : i \in DOMAIN s }

RECURSIVE SeqSum(_)
SeqSum(s) == IF s = << >> THEN 0 ELSE Head(s) + SeqSum(Tail(s))

RECURSIVE Flatten(_)
Flatten(ss) == IF ss = << >> THEN << >> ELSE Head(ss) \o Flatten(Tail(ss))

\* s.slice(0, n)
Slice0(s, n) == SubSeq(s, 1, IF Len(s) < n THEN Len(s) ELSE n)

\* Math.min with the clamp lost: the second argument is returned as it is
MinUnclamped(a, b) == b

Min(a, b) == IF a < b THEN a ELSE b

\* (AfterSplice: splice(0, n) in the place of slice(0, n): the receiver loses
\* the elements that the call returns)
AfterSplice(receiver, n) == SubSeq(receiver, Min(n, Len(receiver)) + 1, Len(receiver))

\* what the receiver of receiver.slice(0, n) holds after the call: slice
\* returns a copy and leaves the receiver as it was
AfterSlice(receiver, n) == receiver

(***************************************************************************)
(* Number arithmetic of the confidence formula.  JavaScript numbers are    *)
(* IEEE-754 binary64: activeSignals / totalSignals and the product by 100  *)
(* are each rounded to 53 significant bits (round to nearest, ties to      *)
(* even) and Math.round rounds the resulting double to the nearest         *)
(* integer, ties towards +Infinity.  A double is [m, e] with the value     *)
(* m * 2^(-e), e >= 1; the integer m is held as limbs of LimbBits bits,    *)
(* most significant first, the first limb carrying the bits above          *)
(* LimbBits * (Len(m) - 1), where Len(m) - 1 = (e - 1) \div LimbBits.      *)
(***************************************************************************)
MantissaBits == 53

RECURSIVE Pow2(_)
Pow2(n) == IF n = 0 THEN 1 ELSE 2 * Pow2(n - 1)

LimbBits == 18
Base == Pow2(LimbBits)

RECURSIVE BitLen(_)
BitLen(n) == IF n = 0 THEN 0 ELSE 1 + BitLen(n \div 2)

\* carry the overflow of every limb into the limb above it
RECURSIVE Normalize(_)
Normalize(m) ==
  IF Len(m) <= 1 THEN m
  ELSE LET low  == m[Len(m)]
           rest == SubSeq(m, 1, Len(m) - 1)
       IN  Normalize([ rest EXCEPT ![Len(rest)] = @ + (low \div Base) ])
             \o << low % Base >>

\* least k with a * 2^k >= t
RECURSIVE LeadShift(_, _)
LeadShift(a, t) == IF a >= t THEN 0 ELSE 1 + LeadShift(2 * a, t)

\* [limbs |-> the next n limbs of the quotient rem / t, rem |-> the remainder left]
RECURSIVE LongDiv(_, _, _)
LongDiv(rem, t, n) ==
  IF n = 0 THEN [ limbs |-> << >>, rem |-> rem ]
  ELSE LET rest == LongDiv((rem * Base) % t, t, n - 1)
       IN  [ limbs |-> << (rem * Base) \div t >> \o rest.limbs, rem |-> rest.rem ]

\* the double a / t, for integers 0 <= a <= t, 0 < t < 64
FloatDiv(a, t) ==
  IF a = 0 THEN [ m |-> << 0 >>, e |-> 1 ]
  ELSE LET e     == LeadShift(a, t) + MantissaBits - 1
           n     == (e - 1) \div LimbBits
           first == a * Pow2(e - LimbBits * n)
           q     == LongDiv(first % t, t, n)
           m     == << first \div t >> \o q.limbs
           up    == 2 * q.rem > t \/ (2 * q.rem = t /\ m[Len(m)] % 2 = 1)
       IN  [ m |-> IF up THEN Normalize([ m EXCEPT ![Len(m)] = @ + 1 ]) ELSE m,
             e |-> e ]

\* the double x * c, for an integer 0 <= c < 2^13
FloatMul(x, c) ==
  LET p      == Normalize([ i \in DOMAIN x.m |-> x.m[i] * c ])
      d      == LimbBits * (Len(p) - 1) + BitLen(p[1]) - MantissaBits
      low    == p[Len(p)]
      rem    == low % Pow2(d)
      up     == 2 * rem > Pow2(d) \/ (2 * rem = Pow2(d) /\ (low \div Pow2(d)) % 2 = 1)
      kept   == low - rem + (IF up THEN Pow2(d) ELSE 0)
  IN  [ m |-> IF d <= 0 THEN p ELSE Normalize([ p EXCEPT ![Len(p)] = kept ]),
        e |-> x.e ]

\* Math.round(x) for a double x >= 0: floor(x + 1/2)
MathRound(x) ==
  LET s == x.e - LimbBits * (Len(x.m) - 1)
  IN  (x.m[1] + Pow2(s - 1)) \div Pow2(s)

(***************************************************************************)
(* Inputs: the signal bundle (FingerprintData) and the optional page       *)
(* context handed to the TargetDetector constructor.                       *)
(***************************************************************************)
undefined == [ undefined |-> TRUE ]
null == [ null |-> TRUE ]
\* the exception of a property read on undefined; nothing in
\* target-detector.ts catches it, so it leaves the call that was made
TypeError == [ thrown |-> "TypeError" ]

\* the sub-fields of FingerprintData that target-detector.ts reads
CompleteBundles ==
  { [ canvas  |-> [ supported |-> c ],
      webgl   |-> [ supported |-> w ],
      audio   |-> [ supported |-> a ],
      battery |-> [ supported |-> b ],
      storage |-> [ localStorage |-> l ] ] : c, w, a, b, l \in BOOLEAN }

AllTrue ==
  [ canvas |-> [ supported |-> TRUE ], webgl |-> [ supported |-> TRUE ],
    audio |-> [ supported |-> TRUE ], battery |-> [ supported |-> TRUE ],
    storage |-> [ localStorage |-> TRUE ] ]

\* the bundle of collectQuickFingerprint: navigator, hardware, mediaQueries,
\* misc, timestamp and sessionId only; none of the sub-fields read here
QuickBundle ==
  [ canvas |-> undefined, webgl |-> undefined, audio |-> undefined,
    battery |-> undefined, storage |-> undefined ]

\* bundles with absent sub-fields: the quick bundle, and every bundle that
\* lacks exactly one of the sub-fields and has the others set
PartialBundles ==
  { QuickBundle } \cup { [ AllTrue EXCEPT ![f] = undefined ] : f \in DOMAIN AllTrue }

Bundles == CompleteBundles \cup PartialBundles

\* batches of observed domains; pageContext.domains is the concatenation of
\* at most MaxDomainGroups of them, in this order
DomainGroups ==
  << << "g.alicdn.com", "criteo.com" >>,
     AliExpressProfile.trackingInfra.primaryDomains
       \o AliExpressProfile.trackingInfra.thirdPartyTrackers,
     << "www.amazon.com", "d1.cloudfront.net" >>,
     << "www.youtube.com", "www.tiktok.com" >>,
     << "Facebook.com", "connect.facebook.net" >> >>

\* observed script URLs; pageContext.scripts holds at most MaxScripts of them
ScriptPool ==
  << "https://www.google-analytics.com/analytics.js",
     "https://connect.facebook.net/en_US/fbevents.js" >>

\* the entries of pool selected by the index set picked, in pool order
RECURSIVE Select(_, _, _)
Select(pool, picked, i) ==
  IF i > Len(pool) THEN << >>
  ELSE (IF i \in picked THEN << pool[i] >> ELSE << >>) \o Select(pool, picked, i + 1)

DomainLists ==
  { Flatten(Select(DomainGroups, g, 1)) :
      g \in { x \in SUBSET DOMAIN DomainGroups : Cardinality(x) <= MaxDomainGroups } }

ScriptLists ==
  { Select(ScriptPool, g, 1) :
      g \in { x \in SUBSET DOMAIN ScriptPool : Cardinality(x) <= MaxScripts } }

\* names of cookies / localStorage entries a page can report: declared
\* storage keys of AliExpress, Google and Facebook
StoredKeys == << "cna", "_ga", "datr" >>

PageContexts ==
  { undefined } \cup
  { [ domains |-> d, scripts |-> sc, cookies |-> << >>, localStorage |-> << >> ] :
      d \in DomainLists, sc \in ScriptLists } \cup
  { [ domains |-> d, scripts |-> << >>, cookies |-> StoredKeys,
      localStorage |-> StoredKeys ] : d \in { << >>, DomainGroups[1] } }

\* ids handed to quickDetect: the catalog ids and one id that is in no profile
ProfileIds == { ALL_TARGET_PROFILES[i].id : i \in DOMAIN ALL_TARGET_PROFILES } \cup { "yandex" }

(***************************************************************************)
(* String.prototype.includes and Array.prototype.some over it.             *)
(***************************************************************************)
\* (includesWhole: equality with the whole entry instead of containment)
includesWhole(s, sub) == s = sub

includes(s, sub) ==
  \E i \in 1..(Len(s) - Len(sub) + 1) : SubSeq(s, i, i + Len(sub) - 1) = sub

\* every string an explored page context can hold
ObservableStrings ==
  UNION { Range(DomainGroups[i]) : i \in DOMAIN DomainGroups } \cup Range(ScriptPool)

\* every indicator string of the catalog
CatalogIndicators ==
  UNION { Range(ALL_TARGET_PROFILES[i].trackingInfra.primaryDomains)
            \cup Range(ALL_TARGET_PROFILES[i].trackingInfra.thirdPartyTrackers)
            \cup Range(ALL_TARGET_PROFILES[i].trackingInfra.jsLibraries) :
          i \in DOMAIN ALL_TARGET_PROFILES }

\* d.includes(x), tabulated once for the observable strings and the indicators
IncludesTable ==
  [ d \in ObservableStrings |-> { x \in CatalogIndicators : includes(d, x) } ]

\* list.some(d => d.includes(x))
SomeIncludes(list, x) == \E i \in DOMAIN list : x \in IncludesTable[list[i]]

(***************************************************************************)
(* The four evaluators of TargetDetector.                                  *)
(***************************************************************************)
\* (DomainSignalDefaultFound: an absent page context counts as a match)
DomainSignalDefaultFound(ctx, domain, foundSeverity, foundText, missingText) ==
  LET found == IF ctx = undefined THEN TRUE ELSE SomeIncludes(ctx.domains, domain)
  IN  [ type |-> "domain", name |-> domain, found |-> found,
        severity |-> IF found THEN foundSeverity ELSE "low",
        description |-> << IF found THEN foundText ELSE missingText, domain >> ]

\* this.pageContext?.domains.some(d => d.includes(domain)) ?? false, and the
\* signal pushed for it
DomainSignal(ctx, domain, foundSeverity, foundText, missingText) ==
  LET found == IF ctx = undefined THEN FALSE ELSE SomeIncludes(ctx.domains, domain)
  IN  [ type |-> "domain", name |-> domain, found |-> found,
        severity |-> IF found THEN foundSeverity ELSE "low",
        description |-> << IF found THEN foundText ELSE missingText, domain >> ]

checkDomains(ctx, profile) ==
  [ i \in DOMAIN profile.trackingInfra.primaryDomains |->
      DomainSignal(ctx, profile.trackingInfra.primaryDomains[i], "high",
                   "connection-found", "connection-not-found") ]
  \o
  [ i \in DOMAIN profile.trackingInfra.thirdPartyTrackers |->
      DomainSignal(ctx, profile.trackingInfra.thirdPartyTrackers[i], "medium",
                   "tracker-active", "tracker-not-found") ]

\* (checkScriptsAnyEntry: the library is looked for in the observed domains as
\* well as in the observed scripts)
checkScriptsAnyEntry(ctx, profile) ==
  [ i \in DOMAIN profile.trackingInfra.jsLibraries |->
      LET lib   == profile.trackingInfra.jsLibraries[i]
          found == IF ctx = undefined THEN FALSE
                   ELSE SomeIncludes(ctx.domains \o ctx.scripts, lib)
      IN  [ type |-> "script", name |-> lib, found |-> found,
            severity |-> IF found THEN "critical" ELSE "low",
            description |-> << IF found THEN "script-found" ELSE "script-not-loaded",
                               lib >> ] ]

checkScripts(ctx, profile) ==
  [ i \in DOMAIN profile.trackingInfra.jsLibraries |->
      LET lib   == profile.trackingInfra.jsLibraries[i]
          found == IF ctx = undefined THEN FALSE ELSE SomeIncludes(ctx.scripts, lib)
      IN  [ type |-> "script", name |-> lib, found |-> found,
            severity |-> IF found THEN "critical" ELSE "low",
            description |-> << IF found THEN "script-found" ELSE "script-not-loaded",
                               lib >> ] ]

FingerprintSignal(cond, name, severity, text, profile) ==
  IF cond
  THEN << [ type |-> "fingerprint", name |-> name, found |-> TRUE,
            severity |-> severity, description |-> << text, profile.name >> ] >>
  ELSE << >>

\* methods.canvas && this.fingerprintData.canvas.supported, and the like for
\* webgl, audio and battery: the read of .supported throws when the flag of
\* the profile is set and the sub-field is absent
FingerprintReadThrows(fd, profile) ==
  \E f \in { "canvas", "webgl", "audio", "battery" } :
    profile.fingerprintMethods[f] /\ fd[f] = undefined

\* (checkFingerprintMethodsDeclared: the flags of the profile alone decide, the
\* bundle is not consulted)
checkFingerprintMethodsDeclared(fd, profile) ==
  LET methods == profile.fingerprintMethods
  IN  FingerprintSignal(methods.canvas,
                        "Canvas Fingerprinting", "high", "uses-canvas", profile)
      \o FingerprintSignal(methods.webgl,
                           "WebGL Fingerprinting", "high", "uses-webgl", profile)
      \o FingerprintSignal(methods.audio,
                           "Audio Fingerprinting", "medium", "uses-audio", profile)
      \o FingerprintSignal(methods.fonts,
                           "Font Enumeration", "medium", "enumerates-fonts", profile)
      \o FingerprintSignal(methods.battery,
                           "Battery API", "medium", "uses-battery", profile)
      \o FingerprintSignal(methods.behavioral,
                           "Behavioral Tracking", "high", "tracks-behavior", profile)

\* the signals checkFingerprintMethods returns when no read throws
checkFingerprintMethods(fd, profile) ==
  LET methods == profile.fingerprintMethods
  IN  FingerprintSignal(methods.canvas /\ fd.canvas.supported,
                        "Canvas Fingerprinting", "high", "uses-canvas", profile)
      \o FingerprintSignal(methods.webgl /\ fd.webgl.supported,
                           "WebGL Fingerprinting", "high", "uses-webgl", profile)
      \o FingerprintSignal(methods.audio /\ fd.audio.supported,
                           "Audio Fingerprinting", "medium", "uses-audio", profile)
      \o FingerprintSignal(methods.fonts,
                           "Font Enumeration", "medium", "enumerates-fonts", profile)
      \o FingerprintSignal(methods.battery /\ fd.battery.supported,
                           "Battery API", "medium", "uses-battery", profile)
      \o FingerprintSignal(methods.behavioral,
                           "Behavioral Tracking", "high", "tracks-behavior", profile)

\* this.fingerprintData.storage.localStorage throws when storage is absent
StorageReadThrows(fd) == fd.storage = undefined

\* (checkStorageKeysFound: the keys are reported as found)
checkStorageKeysFound(fd, profile) ==
  IF fd.storage.localStorage
  THEN LET keys == Slice0(profile.storageKeys, 10)
       IN  [ i \in DOMAIN keys |->
               [ type |-> "storage", name |-> keys[i], found |-> TRUE,
                 severity |-> "medium",
                 description |-> << "key-may-be-used", keys[i], profile.name >> ] ]
  ELSE << >>

\* (checkStorageKeysAll: every declared key, without slice(0, 10))
checkStorageKeysAll(fd, profile) ==
  IF fd.storage.localStorage
  THEN LET keys == profile.storageKeys
       IN  [ i \in DOMAIN keys |->
               [ type |-> "storage", name |-> keys[i], found |-> FALSE,
                 severity |-> "medium",
                 description |-> << "key-may-be-used", keys[i], profile.name >> ] ]
  ELSE << >>

\* the signals checkStorageKeys returns when the read does not throw
checkStorageKeys(fd, profile) ==
  IF fd.storage.localStorage
  THEN LET keys == Slice0(profile.storageKeys, 10)
       IN  [ i \in DOMAIN keys |->
               [ type |-> "storage", name |-> keys[i], found |-> FALSE,
                 severity |-> "medium",
                 description |-> << "key-may-be-used", keys[i], profile.name >> ] ]
  ELSE << >>


(***************************************************************************)
(* generateRecommendations.  An advisory is the key of its template        *)
(* followed by the interpolated text.                                      *)
(***************************************************************************)
RECURSIVE Join(_, _)
\* list.join(sep)
Join(list, sep) ==
  IF list = << >> THEN ""
  ELSE IF Len(list) = 1 THEN list[1]
  ELSE list[1] \o sep \o Join(Tail(list), sep)

Advisory(cond, entry) == IF cond THEN << entry >> ELSE << >>

\* the switch (profile.id) of generateRecommendations
SpecificRecommendations(id) ==
  CASE id = "aliexpress" -> << << "aliexpress-use-vpn" >>, << "aliexpress-disable-webrtc" >> >>
    [] id = "facebook"   -> << << "facebook-container" >>, << "facebook-ublock" >> >>
    [] id = "google"     -> << << "google-disable-tracking" >>, << "google-alternatives" >> >>
    [] id = "tiktok"     -> << << "tiktok-limit-permissions" >>, << "tiktok-deny-clipboard" >> >>
    [] OTHER             -> << >>

\* (generateRecommendationsUncut: the list is returned without slice(0, 5))
generateRecommendationsUncut(profile, signals) ==
  LET criticalSignals == SelectSeq(signals, LAMBDA s : s.severity = "critical" /\ s.found)
  IN  Advisory(profile.countermeasures.useContainer, << "use-container", profile.name >>)
      \o Advisory(profile.countermeasures.blockDomains,
                  << "block-domains",
                     Join(Slice0(profile.trackingInfra.primaryDomains, 3), ", ") >>)
      \o Advisory(profile.countermeasures.clearCookies, << "clear-cookies", profile.name >>)
      \o Advisory(profile.countermeasures.spoofFingerprint,
                  << "spoof-fingerprint", profile.name >>)
      \o Advisory(Len(criticalSignals) > 0,
                  << "critical-trackers",
                     Join([ i \in DOMAIN criticalSignals |-> criticalSignals[i].name ],
                          ", ") >>)
      \o SpecificRecommendations(profile.id)

generateRecommendations(profile, signals) ==
  LET criticalSignals == SelectSeq(signals, LAMBDA s : s.severity = "critical" /\ s.found)
      recommendations ==
        Advisory(profile.countermeasures.useContainer, << "use-container", profile.name >>)
        \o Advisory(profile.countermeasures.blockDomains,
                    << "block-domains",
                       Join(Slice0(profile.trackingInfra.primaryDomains, 3), ", ") >>)
        \o Advisory(profile.countermeasures.clearCookies, << "clear-cookies", profile.name >>)
        \o Advisory(profile.countermeasures.spoofFingerprint,
                    << "spoof-fingerprint", profile.name >>)
        \o Advisory(Len(criticalSignals) > 0,
                    << "critical-trackers",
                       Join([ i \in DOMAIN criticalSignals |-> criticalSignals[i].name ],
                            ", ") >>)
        \o SpecificRecommendations(profile.id)
  IN  Slice0(recommendations, 5)

(***************************************************************************)
(* detectProfile.                                                          *)
(***************************************************************************)
Found(signals) == SelectSeq(signals, LAMBDA s : s.found)

\* the weights of the four evidence categories
ScriptWeight == 15
\* (DomainWeightAsScript: the script weight used for domains)
DomainWeightAsScript == ScriptWeight
DomainWeight == 10
FingerprintWeight == 5
StorageWeight == 8
\* detected = riskScore >= DetectionThreshold
\* (DetectionThresholdStrict: riskScore > 30 instead of riskScore >= 30)
DetectionThresholdStrict == 30 + 1
DetectionThreshold == 30

\* every signal the four evaluators emit for one profile, in evaluator order
EmittedSignals(fd, ctx, profile) ==
  checkDomains(ctx, profile) \o checkScripts(ctx, profile)
    \o checkFingerprintMethods(fd, profile) \o checkStorageKeys(fd, profile)

\* the largest number of signals one profile of the catalog can emit
MaxSignals ==
  LET n(i) == Len(EmittedSignals(AllTrue, undefined, ALL_TARGET_PROFILES[i]))
  IN  CHOOSE m \in { n(i) : i \in DOMAIN ALL_TARGET_PROFILES } :
        \A i \in DOMAIN ALL_TARGET_PROFILES : n(i) <= m

\* Math.round((activeSignals / totalSignals) * 100), tabulated
RoundedPercent ==
  [ t \in 1..MaxSignals |->
      [ a \in 0..t |-> MathRound(FloatMul(FloatDiv(a, t), 100)) ] ]

Confidence(activeSignals, totalSignals) == RoundedPercent[totalSignals][activeSignals]

\* an evaluator called by detectProfile throws
detectProfileThrows(fd, profile) ==
  FingerprintReadThrows(fd, profile) \/ StorageReadThrows(fd)

\* the profile object after detectProfile ran on it: the only calls made on
\* its arrays are some, slice and join (checkStorageKeys slices storageKeys
\* when localStorage is set, generateRecommendations slices primaryDomains
\* when blockDomains is set)
profileAfter(fd, profile) ==
  IF detectProfileThrows(fd, profile) THEN profile
  ELSE [ profile EXCEPT
           !.storageKeys = IF fd.storage.localStorage THEN AfterSlice(@, 10) ELSE @,
           !.trackingInfra.primaryDomains =
             IF profile.countermeasures.blockDomains THEN AfterSlice(@, 3) ELSE @ ]

\* detectProfile from the signals of the four evaluators on
scoreProfile(profile, domainSignals, scriptSignals, fpSignals, storageSignals) ==
  LET signals        == domainSignals \o scriptSignals \o fpSignals \o storageSignals
      riskScore      == Len(Found(domainSignals)) * DomainWeight
                          + Len(Found(scriptSignals)) * ScriptWeight
                          + Len(Found(fpSignals)) * FingerprintWeight
                          + Len(Found(storageSignals)) * StorageWeight
      activeSignals  == Len(Found(signals))
      totalSignals   == IF Len(signals) = 0 THEN 1 ELSE Len(signals)
  IN  [ profile |-> profile,
        detected |-> riskScore >= DetectionThreshold,
        confidence |-> Confidence(activeSignals, totalSignals),
        signals |-> Found(signals),
        riskScore |-> Min(100, riskScore),
        recommendations |-> generateRecommendations(profile, signals) ]

detectProfile(fd, ctx, profile) ==
  IF detectProfileThrows(fd, profile) THEN TypeError
  ELSE scoreProfile(profile, checkDomains(ctx, profile), checkScripts(ctx, profile),
                    checkFingerprintMethods(fd, profile), checkStorageKeys(fd, profile))


(***************************************************************************)
(* detectAll and calculateOverallRisk.                                     *)
(***************************************************************************)
\* (compareAscending: the operands of the comparator swapped)
compareAscending(a, b) == a.riskScore - b.riskScore

\* the comparator handed to results.sort
compare(a, b) == b.riskScore - a.riskScore

\* Array.prototype.sort is stable: x goes before the first element that the
\* comparator orders strictly after it
RECURSIVE SortedInsert(_, _)
SortedInsert(sorted, x) ==
  IF sorted = << >> THEN << x >>
  ELSE IF compare(Head(sorted), x) > 0 THEN << x >> \o sorted
  ELSE << Head(sorted) >> \o SortedInsert(Tail(sorted), x)

RECURSIVE Sort(_)
Sort(list) ==
  IF list = << >> THEN << >>
  ELSE SortedInsert(Sort(SubSeq(list, 1, Len(list) - 1)), list[Len(list)])

\* (calculateOverallRiskEager: one CRITICAL-level profile is enough for CRITICAL)
calculateOverallRiskEager(totalScore, results) ==
  LET criticalCount == Len(SelectSeq(results, LAMBDA r : r.profile.riskLevel = "CRITICAL"))
      highScore     == Len(SelectSeq(results, LAMBDA r : r.riskScore >= 50))
  IN  IF criticalCount >= 1 \/ totalScore >= 80 THEN "CRITICAL"
      ELSE IF highScore >= 2 \/ totalScore >= 50 THEN "HIGH"
      ELSE IF totalScore >= 30 THEN "MEDIUM"
      ELSE "LOW"

\* (calculateOverallRiskByScore: a single CRITICAL-level profile does not
\* raise the level)
calculateOverallRiskByScore(totalScore, results) ==
  LET criticalCount == Len(SelectSeq(results, LAMBDA r : r.profile.riskLevel = "CRITICAL"))
      highScore     == Len(SelectSeq(results, LAMBDA r : r.riskScore >= 50))
  IN  IF criticalCount >= 2 \/ totalScore >= 80 THEN "CRITICAL"
      ELSE IF highScore >= 2 \/ totalScore >= 50 THEN "HIGH"
      ELSE IF totalScore >= 30 THEN "MEDIUM"
      ELSE "LOW"

calculateOverallRisk(totalScore, results) ==
  LET criticalCount == Len(SelectSeq(results, LAMBDA r : r.profile.riskLevel = "CRITICAL"))
      highScore     == Len(SelectSeq(results, LAMBDA r : r.riskScore >= 50))
  IN  IF criticalCount >= 2 \/ totalScore >= 80 THEN "CRITICAL"
      ELSE IF criticalCount >= 1 \/ highScore >= 2 \/ totalScore >= 50 THEN "HIGH"
      ELSE IF totalScore >= 30 THEN "MEDIUM"
      ELSE "LOW"

\* (SurfacedInclusive: confidence >= 20 instead of confidence > 20)
SurfacedInclusive(result) == result.detected \/ result.confidence >= 20

\* the filter of the catalog loop: result.detected || result.confidence > 20
Surfaced(result) == result.detected \/ result.confidence > 20

\* (TotalRiskOfConfidence: the reduce adds the wrong field)
TotalRiskOfConfidence(results) ==
  SeqSum([ i \in DOMAIN results |-> results[i].confidence ])

\* results.reduce((sum, r) => sum + r.riskScore, 0)
TotalRisk(results) == SeqSum([ i \in DOMAIN results |-> results[i].riskScore ])

\* (IsCriticalTargetBoth: && instead of ||)
IsCriticalTargetBoth(r) == r.riskScore >= 50 /\ r.profile.riskLevel = "CRITICAL"

\* the filter of criticalTargets
IsCriticalTarget(r) == r.riskScore >= 50 \/ r.profile.riskLevel = "CRITICAL"

\* (AllSignalsOfFirst: only the first result contributes)
AllSignalsOfFirst(results) ==
  IF results = << >> THEN << >> ELSE Found(results[1].signals)

\* results.flatMap(r => r.signals.filter(s => s.found))
AllSignals(results) == Flatten([ i \in DOMAIN results |-> Found(results[i].signals) ])

\* detectAll from the end of its loop on: kept holds the results the loop pushed
aggregate(kept) ==
  LET results == Sort(kept)
      totalRiskScore == TotalRisk(results)
      critical == SelectSeq(results, IsCriticalTarget)
  IN  [ results |-> results,
        overallRisk |-> calculateOverallRisk(totalRiskScore, results),
        totalRiskScore |-> Min(100, totalRiskScore),
        criticalTargets |-> [ i \in DOMAIN critical |-> critical[i].profile ],
        allSignals |-> AllSignals(results) ]

\* detectAll over the array that ALL_TARGET_PROFILES holds when it is called
detectAllOn(profiles, fd, ctx) ==
  IF \E i \in DOMAIN profiles : detectProfileThrows(fd, profiles[i])
  THEN TypeError
  ELSE aggregate(SelectSeq([ i \in DOMAIN profiles |-> detectProfile(fd, ctx, profiles[i]) ],
                           Surfaced))

\* detectAll over the catalog as it is declared
detectAll(fd, ctx) == detectAllOn(ALL_TARGET_PROFILES, fd, ctx)

\* the array ALL_TARGET_PROFILES after detectAll ran over it: the profiles
\* are evaluated in order until one throws
catalogAfterDetectAll(profiles, fd) ==
  [ i \in DOMAIN profiles |->
      IF \E j \in 1..i : detectProfileThrows(fd, profiles[j]) THEN profiles[i]
      ELSE profileAfter(fd, profiles[i]) ]

\* the array ALL_TARGET_PROFILES after detectProfile ran on the object profile
catalogAfterDetectProfile(profiles, fd, profile) ==
  [ i \in DOMAIN profiles |->
      IF profiles[i] = profile THEN profileAfter(fd, profile) ELSE profiles[i] ]

\* ALL_TARGET_PROFILES.find(p => p.id === profileId), as a list of at most one
find(profiles, profileId) ==
  LET matching == SelectSeq(profiles, LAMBDA p : p.id = profileId)
  IN  IF matching = << >> THEN << >> ELSE << matching[1] >>

\* (quickDetectFallback: an id that is not found falls back to the first profile)
quickDetectFallback(profiles, fd, profileId) ==
  LET matching == find(profiles, profileId)
  IN  detectProfile(fd, undefined,
                    IF matching = << >> THEN profiles[1] ELSE matching[1])

\* quickDetect: a new detector without page context, looked up by profile id
quickDetect(profiles, fd, profileId) ==
  LET matching == find(profiles, profileId)
  IN  IF matching = << >> THEN null ELSE detectProfile(fd, undefined, matching[1])

(***************************************************************************)
(* The state machine: one TargetDetector and the value its last call       *)
(* returned.                                                               *)
(***************************************************************************)
VARIABLES
  fingerprintData,  \* TargetDetector.fingerprintData
  pageContext,      \* TargetDetector.pageContext (undefined when not supplied)
  call,             \* the last call: << name >> or << name, argument >>
  ret,              \* the value the last call returned
  catalog,          \* what the exported array ALL_TARGET_PROFILES holds
  runs,             \* the detectTargetTracking calls in progress, by host
  frames,           \* the local arrays of those calls
  started,          \* how many of those calls were made
  collector,        \* the collectFingerprint call: its locals and its promise
  FingerprintJSLoaded, \* collector.ts: the module-level FingerprintJS reference
  loads,            \* the loadFingerprintJS calls in progress, by caller
  loadsStarted      \* how many loadFingerprintJS calls were made

vars == << fingerprintData, pageContext, call, ret, catalog, runs, frames, started,
           collector, FingerprintJSLoaded, loads, loadsStarted >>

\* the state of lib/fingerprint/collector
collectorVars == << collector, FingerprintJSLoaded, loads, loadsStarted >>

\* the callers of loadFingerprintJS whose calls can overlap
LoadIds == { "A", "B", "C" }

\* no call of loadFingerprintJS in progress for a caller
IdleLoad == [ pc |-> "idle", imported |-> FALSE, value |-> undefined ]

\* no collectFingerprint call was made
IdleCollector ==
  [ pc |-> 0, signalsCollected |-> 0, reports |-> << >>, results |-> << >>,
    fpjs |-> null, outcome |-> "none", value |-> undefined ]

NoCollector ==
  /\ collector = IdleCollector
  /\ FingerprintJSLoaded = null
  /\ loads = [ c \in LoadIds |-> IdleLoad ]
  /\ loadsStarted = 0

\* the hosts that call detectTargetTracking side by side
RunIds == { "A", "B" }

\* a host that has not called yet
IdleRun ==
  [ phase |-> "idle", fingerprintData |-> undefined, pageContext |-> undefined,
    index |-> 0, step |-> "none", overlapped |-> FALSE, value |-> undefined ]

\* the arrays a detectAll call allocates: results of detectAll and the signal
\* lists the four evaluators return to detectProfile
EmptyFrame ==
  [ results |-> << >>, domainSignals |-> << >>, scriptSignals |-> << >>,
    fpSignals |-> << >>, storageSignals |-> << >> ]

\* no detectTargetTracking call is in progress
NoRuns ==
  /\ runs = [ r \in RunIds |-> IdleRun ]
  /\ frames = [ r \in RunIds |-> EmptyFrame ]
  /\ started = 0

\* a profile with no indicator and no capability flag: detectProfile is public
\* and accepts any TargetProfile
BareProfile ==
  [ id |-> "custom",
    name |-> "Custom",
    riskLevel |-> "LOW",
    trackingInfra |-> [ primaryDomains |-> << >>, thirdPartyTrackers |-> << >>,
                        jsLibraries |-> << >> ],
    fingerprintMethods |->
      [ canvas |-> FALSE, webgl |-> FALSE, audio |-> FALSE, fonts |-> FALSE,
        sensors |-> FALSE, battery |-> FALSE, webrtc |-> FALSE, behavioral |-> FALSE ],
    storageKeys |-> << >>,
    countermeasures |->
      [ blockDomains |-> FALSE, spoofFingerprint |-> FALSE,
        clearCookies |-> FALSE, useContainer |-> FALSE ] ]

\* the profiles handed to detectProfile
Profiles == Range(ALL_TARGET_PROFILES) \cup { BareProfile }

\* the profile objects a caller can hand to detectProfile: the ones the
\* catalog holds and one of its own
CallerProfiles == Range(catalog) \cup { BareProfile }

\* new TargetDetector(fingerprintData, pageContext)
Init ==
  /\ fingerprintData \in Bundles
  /\ pageContext \in PageContexts
  /\ call = << "new" >>
  /\ ret = undefined
  /\ catalog = ALL_TARGET_PROFILES
  /\ NoRuns
  /\ NoCollector

DetectAll ==
  /\ call' = << "detectAll" >>
  /\ ret' = detectAllOn(catalog, fingerprintData, pageContext)
  /\ catalog' = catalogAfterDetectAll(catalog, fingerprintData)
  /\ UNCHANGED << fingerprintData, pageContext, runs, frames, started,
                  collectorVars >>

DetectProfile(profile) ==
  /\ call' = << "detectProfile", profile.id >>
  /\ ret' = detectProfile(fingerprintData, pageContext, profile)
  /\ catalog' = catalogAfterDetectProfile(catalog, fingerprintData, profile)
  /\ UNCHANGED << fingerprintData, pageContext, runs, frames, started,
                  collectorVars >>

\* quickDetect(fingerprintData, profileId) builds its own detector, without
\* page context, over the caller's bundle
QuickDetect(profileId) ==
  /\ call' = << "quickDetect", profileId >>
  /\ pageContext' = undefined
  /\ ret' = quickDetect(catalog, fingerprintData, profileId)
  /\ catalog' = IF find(catalog, profileId) = << >> THEN catalog
                ELSE catalogAfterDetectProfile(catalog, fingerprintData,
                                               find(catalog, profileId)[1])
  /\ UNCHANGED << fingerprintData, runs, frames, started,
                  collectorVars >>

Next ==
  \/ DetectAll
  \/ \E profile \in CallerProfiles : DetectProfile(profile)
  \/ \E profileId \in ProfileIds : QuickDetect(profileId)

Spec == Init /\ [][Next]_vars

(***************************************************************************)
(* Several detectTargetTracking calls side by side.  Each call builds its  *)
(* own TargetDetector and runs detectAll; a step is one evaluator call of  *)
(* detectProfile, the rest of detectProfile with the filter of the loop,   *)
(* or the part of detectAll after the loop.  The calls share the array     *)
(* ALL_TARGET_PROFILES and nothing else.                                   *)
(***************************************************************************)
\* at most this many calls are made in all
MaxRuns == 3

\* the inputs of the calls: a bundle and a page context (or none)
RunInputs ==
  { [ fingerprintData |-> AllTrue,
      pageContext |-> [ domains |-> DomainGroups[1], scripts |-> << >>,
                        cookies |-> << >>, localStorage |-> << >> ] ],
    [ fingerprintData |-> [ AllTrue EXCEPT !.battery = [ supported |-> FALSE ],
                                           !.storage = [ localStorage |-> FALSE ] ],
      pageContext |-> undefined ],
    [ fingerprintData |-> QuickBundle, pageContext |-> undefined ] }

\* (FrameShared: the local arrays hoisted out of the call, one set for all)
FrameShared(r) == CHOOSE f \in RunIds : TRUE

\* the activation whose local arrays the call of host r reads and writes:
\* const results = [] and const signals = [] are allocated by each call
Frame(r) == r

\* every other call in progress has seen a step of r between two of its own
Overlap(r, next) ==
  [ q \in RunIds |->
      IF q # r /\ runs[q].phase = "running" THEN [ next[q] EXCEPT !.overlapped = TRUE ]
      ELSE next[q] ]

\* the profile the loop of detectAll is at
Current(r) == catalog[runs[r].index]

\* detectTargetTracking(fingerprintData, pageContext): the constructor and
\* detectAll up to the first iteration of its loop
StartRun(r, input) ==
  /\ runs[r].phase \in { "idle", "done" }
  /\ started < MaxRuns
  /\ started' = started + 1
  /\ runs' = Overlap(r, [ runs EXCEPT ![r] =
                [ phase |-> "running",
                  fingerprintData |-> input.fingerprintData,
                  pageContext |-> input.pageContext,
                  index |-> 1,
                  step |-> IF catalog = << >> THEN "aggregate" ELSE "domains",
                  overlapped |-> FALSE,
                  value |-> undefined ] ])
  /\ frames' = [ frames EXCEPT ![Frame(r)] = EmptyFrame ]
  /\ UNCHANGED << fingerprintData, pageContext, call, ret, catalog,
                  collectorVars >>

\* const domainSignals = this.checkDomains(profile)
CheckDomains(r) ==
  /\ runs[r].phase = "running" /\ runs[r].step = "domains"
  /\ frames' = [ frames EXCEPT ![Frame(r)].domainSignals =
                   checkDomains(runs[r].pageContext, Current(r)) ]
  /\ runs' = Overlap(r, [ runs EXCEPT ![r].step = "scripts" ])
  /\ UNCHANGED << fingerprintData, pageContext, call, ret, catalog, started,
                  collectorVars >>

\* const scriptSignals = this.checkScripts(profile)
CheckScripts(r) ==
  /\ runs[r].phase = "running" /\ runs[r].step = "scripts"
  /\ frames' = [ frames EXCEPT ![Frame(r)].scriptSignals =
                   checkScripts(runs[r].pageContext, Current(r)) ]
  /\ runs' = Overlap(r, [ runs EXCEPT ![r].step = "fingerprint" ])
  /\ UNCHANGED << fingerprintData, pageContext, call, ret, catalog, started,
                  collectorVars >>

\* const fpSignals = this.checkFingerprintMethods(profile); a TypeError ends
\* the call
CheckFingerprintMethods(r) ==
  /\ runs[r].phase = "running" /\ runs[r].step = "fingerprint"
  /\ IF FingerprintReadThrows(runs[r].fingerprintData, Current(r))
     THEN /\ runs' = Overlap(r, [ runs EXCEPT ![r].phase = "done",
                                              ![r].step = "none",
                                              ![r].value = TypeError ])
          /\ UNCHANGED frames
     ELSE /\ frames' = [ frames EXCEPT ![Frame(r)].fpSignals =
                           checkFingerprintMethods(runs[r].fingerprintData, Current(r)) ]
          /\ runs' = Overlap(r, [ runs EXCEPT ![r].step = "storage" ])
  /\ UNCHANGED << fingerprintData, pageContext, call, ret, catalog, started,
                  collectorVars >>

\* const storageSignals = this.checkStorageKeys(profile); a TypeError ends
\* the call
CheckStorageKeys(r) ==
  /\ runs[r].phase = "running" /\ runs[r].step = "storage"
  /\ IF StorageReadThrows(runs[r].fingerprintData)
     THEN /\ runs' = Overlap(r, [ runs EXCEPT ![r].phase = "done",
                                              ![r].step = "none",
                                              ![r].value = TypeError ])
          /\ UNCHANGED << frames, catalog >>
     ELSE /\ frames' = [ frames EXCEPT ![Frame(r)].storageSignals =
                           checkStorageKeys(runs[r].fingerprintData, Current(r)) ]
          /\ catalog' = [ catalog EXCEPT ![runs[r].index].storageKeys =
                            IF runs[r].fingerprintData.storage.localStorage
                            THEN AfterSlice(@, 10) ELSE @ ]
          /\ runs' = Overlap(r, [ runs EXCEPT ![r].step = "score" ])
  /\ UNCHANGED << fingerprintData, pageContext, call, ret, started,
                  collectorVars >>

\* the rest of detectProfile (recommendations, confidence, the result), the
\* filter of the loop of detectAll and the move to the next profile
ScoreProfile(r) ==
  /\ runs[r].phase = "running" /\ runs[r].step = "score"
  /\ LET frame  == frames[Frame(r)]
         result == scoreProfile(Current(r), frame.domainSignals, frame.scriptSignals,
                                frame.fpSignals, frame.storageSignals)
     IN  frames' = [ frames EXCEPT ![Frame(r)].results =
                       IF Surfaced(result) THEN Append(@, result) ELSE @ ]
  /\ catalog' = [ catalog EXCEPT ![runs[r].index].trackingInfra.primaryDomains =
                    IF Current(r).countermeasures.blockDomains
                    THEN AfterSlice(@, 3) ELSE @ ]
  /\ runs' = Overlap(r, IF runs[r].index < Len(catalog)
                        THEN [ runs EXCEPT ![r].index = @ + 1, ![r].step = "domains" ]
                        ELSE [ runs EXCEPT ![r].step = "aggregate" ])
  /\ UNCHANGED << fingerprintData, pageContext, call, ret, started,
                  collectorVars >>

\* detectAll after its loop: sort, totals, verdict, critical targets, signals
Aggregate(r) ==
  /\ runs[r].phase = "running" /\ runs[r].step = "aggregate"
  /\ runs' = Overlap(r, [ runs EXCEPT ![r].phase = "done",
                                      ![r].step = "none",
                                      ![r].value = aggregate(frames[Frame(r)].results) ])
  /\ UNCHANGED << fingerprintData, pageContext, call, ret, catalog, frames, started,
                  collectorVars >>

InitRuns ==
  /\ fingerprintData = AllTrue
  /\ pageContext = undefined
  /\ call = << "new" >>
  /\ ret = undefined
  /\ catalog = ALL_TARGET_PROFILES
  /\ NoRuns
  /\ NoCollector

NextRuns ==
  \/ \E r \in RunIds, input \in RunInputs : StartRun(r, input)
  \/ \E r \in RunIds : CheckDomains(r)
  \/ \E r \in RunIds : CheckScripts(r)
  \/ \E r \in RunIds : CheckFingerprintMethods(r)
  \/ \E r \in RunIds : CheckStorageKeys(r)
  \/ \E r \in RunIds : ScoreProfile(r)
  \/ \E r \in RunIds : Aggregate(r)

SpecRuns == InitRuns /\ [][NextRuns]_vars

(***************************************************************************)
(* lib/fingerprint/collector: collectFingerprint.  Each numbered section   *)
(* of the function is a step: updateProgress, then the call of the reader  *)
(* of that section.  The readers themselves (./canvas, ./webgl, ./audio,   *)
(* ./fonts, ./webrtc, ./hardware, ./navigator, ./sensors, ./storage,       *)
(* ./misc) return a value or fail; a stage is named by an ASCII key.       *)
(***************************************************************************)
\* (totalSignalsOfSections: the fifteen numbered sections, the final report not
\* counted)
totalSignalsOfSections == 14 + 1
totalSignals == 16

\* sections 1 to 14: the argument currentSignal of updateProgress and the
\* field of the bundle that the section fills
CollectorSections ==
  << [ currentSignal |-> "Canvas 2D",     field |-> "canvas" ],
     [ currentSignal |-> "WebGL",         field |-> "webgl" ],
     [ currentSignal |-> "AudioContext",  field |-> "audio" ],
     [ currentSignal |-> "Fonts",         field |-> "fonts" ],
     [ currentSignal |-> "WebRTC",        field |-> "webrtc" ],
     [ currentSignal |-> "Media Devices", field |-> "mediaDevices" ],
     [ currentSignal |-> "Hardware",      field |-> "hardware" ],
     [ currentSignal |-> "Navigator",     field |-> "navigator" ],
     [ currentSignal |-> "Sensors",       field |-> "sensors" ],
     [ currentSignal |-> "Battery",       field |-> "battery" ],
     [ currentSignal |-> "Media Queries", field |-> "mediaQueries" ],
     [ currentSignal |-> "Storage",       field |-> "storage" ],
     [ currentSignal |-> "Performance",   field |-> "performance" ],
     [ currentSignal |-> "Misc",          field |-> "misc" ] >>

\* how the call of a reader can end: the readers read browser interfaces
\* (canvas, WebGL, AudioContext, RTCPeerConnection, getBattery, storage) that
\* a browser may lack or refuse
ReaderOutcomes == { "returns", "throws" }

\* what the reader of a section can return
SectionValues(field) ==
  IF field \in { "canvas", "webgl", "audio", "battery" }
  THEN { [ supported |-> b ] : b \in BOOLEAN }
  ELSE IF field = "storage" THEN { [ localStorage |-> b ] : b \in BOOLEAN }
  ELSE { [ collected |-> TRUE ] }

\* updateProgress(stage, currentSignal): signalsCollected++ and the report
\* handed to onProgress
updateProgress(c, currentSignal) ==
  [ c EXCEPT
      !.signalsCollected = @ + 1,
      !.reports = Append(@,
        [ currentSignal |-> currentSignal,
          progress |-> MathRound(FloatMul(FloatDiv(c.signalsCollected + 1, totalSignals),
                                          100)),
          signalsCollected |-> c.signalsCollected + 1,
          totalSignals |-> totalSignals ]) ]

\* collectFingerprint(onProgress) up to its first section
CollectFingerprint ==
  /\ collector.outcome # "pending"
  /\ collector' = [ IdleCollector EXCEPT !.pc = 1, !.outcome = "pending" ]
  /\ UNCHANGED << fingerprintData, pageContext, call, ret, catalog, runs, frames,
                  started, FingerprintJSLoaded, loads, loadsStarted >>

\* a section 1 to 14 whose reader returns v
Collect(v) ==
  /\ "returns" \in ReaderOutcomes
  /\ collector.outcome = "pending"
  /\ collector.pc \in DOMAIN CollectorSections
  /\ v \in SectionValues(CollectorSections[collector.pc].field)
  /\ collector' =
       [ updateProgress(collector, CollectorSections[collector.pc].currentSignal)
           EXCEPT !.pc = @ + 1,
                  !.results = Append(@, v) ]
  /\ UNCHANGED << fingerprintData, pageContext, call, ret, catalog, runs, frames,
                  started, FingerprintJSLoaded, loads, loadsStarted >>

\* a section 1 to 14 whose reader throws (or whose promise rejects): no
\* try / catch surrounds the call, so the promise of collectFingerprint rejects
CollectFails ==
  /\ "throws" \in ReaderOutcomes
  /\ collector.outcome = "pending"
  /\ collector.pc \in DOMAIN CollectorSections
  /\ collector' =
       [ updateProgress(collector, CollectorSections[collector.pc].currentSignal)
           EXCEPT !.outcome = "rejected" ]
  /\ UNCHANGED << fingerprintData, pageContext, call, ret, catalog, runs, frames,
                  started, FingerprintJSLoaded, loads, loadsStarted >>

\* section 15 is next
AtFingerprintJS ==
  /\ collector.outcome = "pending"
  /\ collector.pc = Len(CollectorSections) + 1

\* section 15: loadFingerprintJS gives the module (from the cache or by a
\* successful import), load and detect succeed
FingerprintJSDetects ==
  /\ AtFingerprintJS
  /\ FingerprintJSLoaded' = [ module |-> "fingerprintjs" ]
  /\ collector' = [ updateProgress(collector, "FingerprintJS")
                      EXCEPT !.pc = @ + 1, !.fpjs = [ visitorId |-> "visitor" ] ]
  /\ UNCHANGED << fingerprintData, pageContext, call, ret, catalog, runs, frames,
                  started, loads, loadsStarted >>

\* section 15: the cache is empty and the import fails; loadFingerprintJS
\* returns null and fpjs stays null
FingerprintJSUnavailable ==
  /\ AtFingerprintJS
  /\ FingerprintJSLoaded = null
  /\ collector' = [ updateProgress(collector, "FingerprintJS")
                      EXCEPT !.pc = @ + 1, !.fpjs = null ]
  /\ UNCHANGED << fingerprintData, pageContext, call, ret, catalog, runs, frames,
                  started, FingerprintJSLoaded, loads, loadsStarted >>

\* section 15: the module is there but load or detect throws; the catch
\* block sets fpjs = null
FingerprintJSFails ==
  /\ AtFingerprintJS
  /\ FingerprintJSLoaded' = [ module |-> "fingerprintjs" ]
  /\ collector' = [ updateProgress(collector, "FingerprintJS")
                      EXCEPT !.pc = @ + 1, !.fpjs = null ]
  /\ UNCHANGED << fingerprintData, pageContext, call, ret, catalog, runs, frames,
                  started, loads, loadsStarted >>

\* the last updateProgress and the return of the bundle
Finalize ==
  /\ collector.outcome = "pending"
  /\ collector.pc = Len(CollectorSections) + 2
  /\ collector' =
       [ updateProgress(collector, "finalization")
           EXCEPT !.pc = @ + 1,
                  !.outcome = "resolved",
                  !.value = [ canvas |-> collector.results[1],
                              webgl |-> collector.results[2],
                              audio |-> collector.results[3],
                              battery |-> collector.results[10],
                              storage |-> collector.results[12],
                              fpjs |-> collector.fpjs ] ]
  /\ UNCHANGED << fingerprintData, pageContext, call, ret, catalog, runs, frames,
                  started, FingerprintJSLoaded, loads, loadsStarted >>

InitCollector ==
  /\ fingerprintData = AllTrue
  /\ pageContext = undefined
  /\ call = << "new" >>
  /\ ret = undefined
  /\ catalog = ALL_TARGET_PROFILES
  /\ NoRuns
  /\ NoCollector

NextCollector ==
  \/ CollectFingerprint
  \/ \E v \in UNION { SectionValues(CollectorSections[k].field) :
                        k \in DOMAIN CollectorSections } : Collect(v)
  \/ CollectFails
  \/ FingerprintJSDetects
  \/ FingerprintJSUnavailable
  \/ FingerprintJSFails
  \/ Finalize

SpecCollector == InitCollector /\ [][NextCollector]_vars

(***************************************************************************)
(* loadFingerprintJS called by several callers side by side.  A call runs  *)
(* without interruption up to its await import(...) and from the           *)
(* completion of the import to its return.                                 *)
(***************************************************************************)
\* at most this many calls of loadFingerprintJS are made
MaxLoads == 4

\* fpjsModule.default
FingerprintJSModule == [ module |-> "fingerprintjs" ]

\* (CacheAfterFailedImportCleared: the catch block resets the reference)
CacheAfterFailedImportCleared == null
\* FingerprintJSLoaded after the catch block of loadFingerprintJS: the block
\* warns and returns, it assigns nothing
CacheAfterFailedImport == FingerprintJSLoaded

\* loadFingerprintJS() up to its import: with the reference set it returns
\* the reference, otherwise it starts the import and waits
LoadFingerprintJS(c) ==
  /\ loads[c].pc # "importing"
  /\ loadsStarted < MaxLoads
  /\ loadsStarted' = loadsStarted + 1
  /\ loads' = [ loads EXCEPT ![c] =
                  IF FingerprintJSLoaded # null
                  THEN [ pc |-> "returned", imported |-> FALSE,
                         value |-> FingerprintJSLoaded ]
                  ELSE [ pc |-> "importing", imported |-> TRUE, value |-> undefined ] ]
  /\ UNCHANGED << fingerprintData, pageContext, call, ret, catalog, runs, frames,
                  started, collector, FingerprintJSLoaded >>

\* the import resolves: FingerprintJSLoaded = fpjsModule.default, and the call
\* returns FingerprintJSLoaded
ImportResolves(c) ==
  /\ loads[c].pc = "importing"
  /\ FingerprintJSLoaded' = FingerprintJSModule
  /\ loads' = [ loads EXCEPT ![c].pc = "returned", ![c].value = FingerprintJSModule ]
  /\ UNCHANGED << fingerprintData, pageContext, call, ret, catalog, runs, frames,
                  started, collector, loadsStarted >>

\* the import rejects: the catch block warns and the call returns null
ImportRejects(c) ==
  /\ loads[c].pc = "importing"
  /\ FingerprintJSLoaded' = CacheAfterFailedImport
  /\ loads' = [ loads EXCEPT ![c].pc = "returned", ![c].value = null ]
  /\ UNCHANGED << fingerprintData, pageContext, call, ret, catalog, runs, frames,
                  started, collector, loadsStarted >>

InitLoads ==
  /\ fingerprintData = AllTrue
  /\ pageContext = undefined
  /\ call = << "new" >>
  /\ ret = undefined
  /\ catalog = ALL_TARGET_PROFILES
  /\ NoRuns
  /\ NoCollector

NextLoads ==
  \E c \in LoadIds :
    \/ LoadFingerprintJS(c)
    \/ ImportResolves(c)
    \/ ImportRejects(c)

SpecLoads == InitLoads /\ [][NextLoads]_vars


(***************************************************************************)
(* Properties.                                                             *)
(***************************************************************************)
\* the last call returned a TargetDetectionResult
ReturnedResult ==
  call[1] \in { "detectProfile", "quickDetect" } /\ ret # null /\ ret # TypeError
\* the last call returned a FullDetectionResult
ReturnedFull == call[1] = "detectAll" /\ ret # TypeError

\* the numbers of found signals of the four evaluators for the returned profile
FoundDomains == Len(Found(checkDomains(pageContext, ret.profile)))
FoundScripts == Len(Found(checkScripts(pageContext, ret.profile)))
FoundFingerprints == Len(Found(checkFingerprintMethods(fingerprintData, ret.profile)))
FoundStorage == Len(Found(checkStorageKeys(fingerprintData, ret.profile)))
\* the weighted sum before clamping
WeightedSum == 10 * FoundDomains + 15 * FoundScripts + 5 * FoundFingerprints + 8 * FoundStorage

\* C1: every detectProfile result has 0 <= riskScore <= 100 and
\* 0 <= confidence <= 100, and every detectAll result has
\* 0 <= totalRiskScore <= 100.
ScoreBounds ==
  /\ ReturnedResult => ret.riskScore \in 0..100 /\ ret.confidence \in 0..100
  /\ ReturnedFull =>
       /\ ret.totalRiskScore \in 0..100
       /\ \A i \in DOMAIN ret.results :
            ret.results[i].riskScore \in 0..100 /\ ret.results[i].confidence \in 0..100

\* C1 witness: a detectAll run whose surfaced scores add up to more than 100
\* and that holds a profile scored at the cap
ScoreBoundsWitness ==
  /\ ReturnedFull
  /\ ret.totalRiskScore = 100
  /\ SeqSum([ i \in DOMAIN ret.results |-> ret.results[i].riskScore ]) > 100
  /\ \E i \in DOMAIN ret.results :
       ret.results[i].riskScore = 100 /\ Len(ret.results[i].signals) > 20

\* C2: the riskScore of a detectProfile result is
\* min(100, 10*D + 15*S + 5*F + 8*K) over the found signals of the domain,
\* script, fingerprint and storage evaluators.
RiskScoreIsWeightedSum ==
  ReturnedResult => ret.riskScore = (IF WeightedSum < 100 THEN WeightedSum ELSE 100)

\* C2 witness: domain, script and fingerprint evidence together, below the cap
RiskScoreWitness ==
  /\ ReturnedResult
  /\ FoundDomains > 0 /\ FoundScripts > 0 /\ FoundFingerprints > 0
  /\ WeightedSum < 100

\* C3: detected is true exactly when the returned riskScore is at least 30.
DetectedIffScoreAtLeast30 ==
  ReturnedResult => (ret.detected <=> ret.riskScore >= 30)

\* C3 witness: a result whose weighted sum was clamped
DetectedWitness ==
  ReturnedResult /\ WeightedSum > 100 /\ ret.riskScore = 100 /\ ret.detected


\* every signal the evaluators emit for the returned profile
Emitted == EmittedSignals(fingerprintData, pageContext, ret.profile)

\* C4: confidence is round(100 * found / total) over the signals the four
\* evaluators emit (halves round up, as Math.round does), and 0 when they
\* emit no signal.
ConfidenceIsRoundedPercent ==
  ReturnedResult =>
    ret.confidence =
      (IF Len(Emitted) = 0 THEN 0
       ELSE (200 * Len(Found(Emitted)) + Len(Emitted)) \div (2 * Len(Emitted)))

\* the position of a profile in ALL_TARGET_PROFILES
CatalogIndex(profile) ==
  CHOOSE i \in DOMAIN ALL_TARGET_PROFILES : ALL_TARGET_PROFILES[i] = profile

\* the detectProfile result of the i-th catalog profile for the detector's inputs
ResultOf(i) == detectProfile(fingerprintData, pageContext, ALL_TARGET_PROFILES[i])

\* the positions of results that hold the i-th catalog profile
PositionsOf(i) ==
  { j \in DOMAIN ret.results : ret.results[j].profile = ALL_TARGET_PROFILES[i] }

\* C5: after detectAll a catalog profile is in results iff its detectProfile
\* result has detected = true or confidence > 20, and it is there at most once.
SurfacingRule ==
  ReturnedFull =>
    \A i \in DOMAIN ALL_TARGET_PROFILES :
      /\ Cardinality(PositionsOf(i)) <= 1
      /\ PositionsOf(i) # {} <=> (ResultOf(i).detected \/ ResultOf(i).confidence > 20)

\* C5 witness: one profile is left out with a confidence of exactly 20 and
\* another, not detected, is surfaced by its confidence alone
SurfacingWitness ==
  /\ ReturnedFull
  /\ \E i \in DOMAIN ALL_TARGET_PROFILES :
       ResultOf(i).confidence = 20 /\ ~ResultOf(i).detected /\ PositionsOf(i) = {}
  /\ \E j \in DOMAIN ret.results :
       ~ret.results[j].detected /\ ret.results[j].confidence > 20

\* C6: results is non-increasing in riskScore and results of equal riskScore
\* keep the order of their profiles in ALL_TARGET_PROFILES.
SortedAndStable ==
  ReturnedFull =>
    \A i, j \in DOMAIN ret.results :
      i < j =>
        /\ ret.results[i].riskScore >= ret.results[j].riskScore
        /\ ret.results[i].riskScore = ret.results[j].riskScore =>
             CatalogIndex(ret.results[i].profile) < CatalogIndex(ret.results[j].profile)

\* C6 witness: the sort moved a later catalog profile ahead of an earlier one
\* and kept two results of equal riskScore
SortedWitness ==
  /\ ReturnedFull
  /\ \E i, j \in DOMAIN ret.results :
       /\ i < j
       /\ CatalogIndex(ret.results[i].profile) > CatalogIndex(ret.results[j].profile)
  /\ \E i, j \in DOMAIN ret.results :
       i < j /\ ret.results[i].riskScore = ret.results[j].riskScore

\* the sum of the riskScore of the results returned in results
SurfacedSum == SeqSum([ i \in DOMAIN ret.results |-> ret.results[i].riskScore ])

\* the sum of the riskScore of the catalog profiles that meet the surfacing rule
RuleSum ==
  SeqSum([ i \in DOMAIN ALL_TARGET_PROFILES |->
             IF ResultOf(i).detected \/ ResultOf(i).confidence > 20
             THEN ResultOf(i).riskScore ELSE 0 ])

\* C7: totalRiskScore is min(100, sum of riskScore over the surfaced results);
\* the profiles that were filtered out add nothing.
TotalIsClampedSum ==
  ReturnedFull =>
    /\ ret.totalRiskScore = (IF SurfacedSum < 100 THEN SurfacedSum ELSE 100)
    /\ SurfacedSum = RuleSum

\* C7 witness: some profiles with a positive riskScore were filtered out and
\* the surfaced ones stay below the cap
TotalWitness ==
  /\ ReturnedFull
  /\ Len(ret.results) \in 1..(Len(ALL_TARGET_PROFILES) - 1)
  /\ \E i \in DOMAIN ALL_TARGET_PROFILES : PositionsOf(i) = {} /\ ResultOf(i).riskScore > 0
  /\ SurfacedSum < 100

\* the number of surfaced results whose profile has riskLevel CRITICAL
CriticalCount ==
  Cardinality({ i \in DOMAIN ret.results : ret.results[i].profile.riskLevel = "CRITICAL" })
\* the number of surfaced results with riskScore >= 50
HighScoreCount ==
  Cardinality({ i \in DOMAIN ret.results : ret.results[i].riskScore >= 50 })

\* C8: overallRisk follows from the returned totalRiskScore and the surfaced
\* results by first match: CRITICAL, HIGH, MEDIUM, LOW.
OverallRiskRule ==
  ReturnedFull =>
    ret.overallRisk =
      (IF CriticalCount >= 2 \/ ret.totalRiskScore >= 80 THEN "CRITICAL"
       ELSE IF CriticalCount >= 1 \/ HighScoreCount >= 2 \/ ret.totalRiskScore >= 50
            THEN "HIGH"
       ELSE IF ret.totalRiskScore >= 30 THEN "MEDIUM"
       ELSE "LOW")

\* C8 witness: a single CRITICAL-level profile surfaced with a total below 50,
\* which the second rule alone makes HIGH
OverallRiskWitness ==
  /\ ReturnedFull
  /\ CriticalCount = 1
  /\ ret.totalRiskScore < 50
  /\ ret.overallRisk = "HIGH"

\* the positions of results that the criticalTargets rule selects
CriticalPositions ==
  { i \in DOMAIN ret.results :
      ret.results[i].riskScore >= 50 \/ ret.results[i].profile.riskLevel = "CRITICAL" }

\* C9: criticalTargets holds exactly the profiles of the surfaced results with
\* riskScore >= 50 or riskLevel CRITICAL, in results order.
CriticalTargetsRule ==
  ReturnedFull =>
    /\ Len(ret.criticalTargets) = Cardinality(CriticalPositions)
    /\ \A k \in DOMAIN ret.criticalTargets :
         \E i \in CriticalPositions :
           /\ ret.criticalTargets[k] = ret.results[i].profile
           /\ Cardinality({ h \in CriticalPositions : h < i }) = k - 1

\* C9 witness: a HIGH-level profile is a critical target by its score, a
\* CRITICAL-level one by its level alone
CriticalTargetsWitness ==
  /\ ReturnedFull
  /\ \E k \in DOMAIN ret.criticalTargets : ret.criticalTargets[k].riskLevel # "CRITICAL"
  /\ \E i \in DOMAIN ret.results :
       ret.results[i].riskScore < 50 /\ ret.results[i].profile.riskLevel = "CRITICAL"

\* C10: allSignals is the concatenation, in results order, of the signals of
\* the surfaced results; each has found = true.
AllSignalsRule ==
  ReturnedFull =>
    /\ ret.allSignals = Flatten([ i \in DOMAIN ret.results |-> ret.results[i].signals ])
    /\ \A k \in DOMAIN ret.allSignals : ret.allSignals[k].found
    /\ Len(ret.allSignals) =
         SeqSum([ i \in DOMAIN ret.results |-> Len(ret.results[i].signals) ])

\* C10 witness: several surfaced results, with found domain signals among them
AllSignalsWitness ==
  /\ ReturnedFull
  /\ Len(ret.results) >= 2
  /\ \A i \in DOMAIN ret.results : ret.results[i].signals # << >>
  /\ \E k \in DOMAIN ret.allSignals : ret.allSignals[k].type = "domain"

\* the ids of the catalog
CatalogIds == { ALL_TARGET_PROFILES[i].id : i \in DOMAIN ALL_TARGET_PROFILES }

\* the profiles the last call evaluated
CalledProfiles ==
  IF call[1] = "detectAll" THEN Range(ALL_TARGET_PROFILES)
  ELSE IF call[1] \in { "detectProfile", "quickDetect" }
       THEN { q \in Profiles : q.id = call[2] }
  ELSE { }

\* C12: without a page context every domain and script signal of every
\* evaluated profile has found = false, the call raises nothing when the
\* bundle is complete, and the fingerprint and storage evaluators still
\* contribute: the returned signals are the found fingerprint signals and the
\* riskScore is 5 points for each of them.
NoPageContextRule ==
  (call[1] # "new" /\ pageContext = undefined) =>
    /\ \A q \in CalledProfiles :
         LET signals == checkDomains(pageContext, q) \o checkScripts(pageContext, q)
         IN  /\ Len(signals) = Len(q.trackingInfra.primaryDomains)
                                 + Len(q.trackingInfra.thirdPartyTrackers)
                                 + Len(q.trackingInfra.jsLibraries)
             /\ \A k \in DOMAIN signals : ~signals[k].found
    /\ fingerprintData \in CompleteBundles => ret # TypeError
    /\ ReturnedResult =>
         /\ ret.signals = checkFingerprintMethods(fingerprintData, ret.profile)
         /\ ret.riskScore = 5 * Len(ret.signals)
         /\ Len(Emitted) = Len(checkDomains(pageContext, ret.profile))
                             + Len(checkScripts(pageContext, ret.profile))
                             + Len(ret.signals)
                             + Len(checkStorageKeys(fingerprintData, ret.profile))
    /\ ReturnedFull =>
         \A k \in DOMAIN ret.allSignals : ret.allSignals[k].type = "fingerprint"

\* C12 witness: quickDetect, which never has a page context, returned a result
\* with fingerprint signals while the storage evaluator emitted its keys
NoPageContextWitness ==
  /\ call[1] = "quickDetect"
  /\ pageContext = undefined
  /\ ReturnedResult
  /\ Len(ret.signals) >= 4
  /\ Len(checkStorageKeys(fingerprintData, ret.profile)) = 10
  /\ ret.confidence > 0

\* C13: a call on a bundle with an absent sub-field (canvas, webgl, audio,
\* battery or storage) does not fail: it returns a structured result.
AbsentSubFieldsDoNotFail ==
  (call[1] \in { "detectAll", "detectProfile" } /\ fingerprintData \in PartialBundles) =>
    ret # TypeError

\* C14: quickDetect returns null for an id that is in no catalog profile and,
\* for an id of the catalog, the detectProfile result of that profile computed
\* without page context.
QuickDetectRule ==
  call[1] = "quickDetect" =>
    IF call[2] \notin CatalogIds THEN ret = null
    ELSE \E i \in DOMAIN ALL_TARGET_PROFILES :
           /\ ALL_TARGET_PROFILES[i].id = call[2]
           /\ ret = detectProfile(fingerprintData, undefined, ALL_TARGET_PROFILES[i])
           /\ ret # null

\* C14 witness: an id that is in no profile, looked up over the quick bundle,
\* on which every catalog profile would fail
QuickDetectWitness ==
  /\ call[1] = "quickDetect"
  /\ call[2] \notin CatalogIds
  /\ ret = null
  /\ fingerprintData = QuickBundle

\* C15: for the AliExpress profile, a bundle with canvas and webgl supported,
\* audio unsupported and no localStorage, and the domains g.alicdn.com and
\* criteo.com without scripts, detectProfile finds 2 domain signals, no script
\* signal and the 4 fingerprint signals canvas, webgl, fonts, behavioral:
\* riskScore = 40 and detected = true.
SpecExampleAliExpress ==
  ( /\ call = << "detectProfile", "aliexpress" >>
    /\ fingerprintData \in CompleteBundles
    /\ fingerprintData.canvas.supported /\ fingerprintData.webgl.supported
    /\ ~fingerprintData.audio.supported /\ ~fingerprintData.storage.localStorage
    /\ pageContext # undefined
    /\ pageContext.domains = << "g.alicdn.com", "criteo.com" >>
    /\ pageContext.scripts = << >> )
  =>
    /\ ret # TypeError
    /\ ret.riskScore = 40
    /\ ret.detected
    /\ [ k \in DOMAIN ret.signals |-> ret.signals[k].name ] =
         << "g.alicdn.com", "criteo.com", "Canvas Fingerprinting",
            "WebGL Fingerprinting", "Font Enumeration", "Behavioral Tracking" >>
    /\ FoundDomains = 2 /\ FoundScripts = 0 /\ FoundFingerprints = 4 /\ FoundStorage = 0

\* two bundles agree on the four flags canvas.supported, webgl.supported,
\* audio.supported and storage.localStorage
AgreeOnFourFlags(a, b) ==
  /\ a.canvas.supported = b.canvas.supported
  /\ a.webgl.supported = b.webgl.supported
  /\ a.audio.supported = b.audio.supported
  /\ a.storage.localStorage = b.storage.localStorage

\* what the last call returns over the bundle fd and the same page context
SameCallOver(fd) ==
  IF call[1] = "detectAll" THEN detectAll(fd, pageContext)
  ELSE detectProfile(fd, pageContext, CHOOSE q \in CalledProfiles : TRUE)

\* C16: the result depends on the bundle only through canvas.supported,
\* webgl.supported, audio.supported and storage.localStorage: a run over any
\* bundle that agrees with this one on the four flags, with the same page
\* context, returns the same value.
OnlyFourFlagsMatter ==
  (call[1] \in { "detectAll", "detectProfile" } /\ fingerprintData \in CompleteBundles) =>
    \A other \in CompleteBundles :
      AgreeOnFourFlags(fingerprintData, other) => SameCallOver(other) = ret

\* the pairs << observed domain, indicator >> in which the indicator occurs in
\* the observed domain as a run of consecutive characters, in the same case
SubstringPairs ==
  { found : found \in
      { pair \in (UNION { Range(DomainGroups[i]) : i \in DOMAIN DomainGroups })
                   \X CatalogIndicators :
          \E i \in 1..(Len(pair[1]) + 1), j \in 0..Len(pair[1]) :
            SubSeq(pair[1], i, j) = pair[2] } }

\* some entry of pageContext.domains contains the indicator
Observed(indicator) ==
  /\ pageContext # undefined
  /\ \E e \in DOMAIN pageContext.domains :
       << pageContext.domains[e], indicator >> \in SubstringPairs

\* C20: the domain evaluator emits one signal per primary domain, then one per
\* third-party tracker, in declaration order; found holds iff an entry of
\* pageContext.domains contains the indicator as a case-sensitive substring;
\* the severity is high for a found primary domain, medium for a found
\* third-party tracker and low when not found.  The found ones are the domain
\* signals of the returned result.
DomainEvaluatorRule ==
  call[1] # "new" =>
    /\ \A q \in CalledProfiles :
         LET primary == q.trackingInfra.primaryDomains
             third   == q.trackingInfra.thirdPartyTrackers
             signals == checkDomains(pageContext, q)
         IN  /\ Len(signals) = Len(primary) + Len(third)
             /\ \A k \in DOMAIN signals :
                  LET indicator == IF k <= Len(primary) THEN primary[k]
                                   ELSE third[k - Len(primary)]
                  IN  /\ signals[k].type = "domain"
                      /\ signals[k].name = indicator
                      /\ signals[k].found <=> Observed(indicator)
                      /\ signals[k].severity =
                           (IF ~Observed(indicator) THEN "low"
                            ELSE IF k <= Len(primary) THEN "high" ELSE "medium")
    /\ ReturnedResult =>
         SelectSeq(ret.signals, LAMBDA x : x.type = "domain") =
           SelectSeq(checkDomains(pageContext, ret.profile), LAMBDA x : x.found)

\* C20 witness: AliExpress evaluated over a page that lists Facebook.com and
\* connect.facebook.net: a primary domain is found (high), a third-party
\* tracker is found (medium), and the tracker facebook.com is not found (low)
\* although Facebook.com is observed
DomainEvaluatorWitness ==
  /\ call = << "detectProfile", "aliexpress" >>
  /\ ReturnedResult
  /\ pageContext # undefined
  /\ \E e \in DOMAIN pageContext.domains : pageContext.domains[e] = "Facebook.com"
  /\ LET signals == checkDomains(pageContext, AliExpressProfile)
     IN  /\ \E k \in DOMAIN signals : signals[k].found /\ signals[k].severity = "high"
         /\ \E k \in DOMAIN signals : signals[k].found /\ signals[k].severity = "medium"
         /\ \E k \in DOMAIN signals :
              /\ signals[k].name = "facebook.com"
              /\ ~signals[k].found
              /\ signals[k].severity = "low"
  /\ \E k \in DOMAIN ret.signals : ret.signals[k].name = "criteo.com"

\* the call of host r has returned or thrown
Done(r) == runs[r].phase = "done"

\* C11: two detectAll runs over the same catalog, the same bundle and the same
\* page context return identical values, however many runs were made before
\* and however they were scheduled; and while they run, two such runs that
\* are at the same point hold the same results and signal lists.
DetectAllDeterministic ==
  \A a, b \in RunIds :
    ( /\ runs[a].fingerprintData = runs[b].fingerprintData
      /\ runs[a].pageContext = runs[b].pageContext
      /\ runs[a].phase = runs[b].phase
      /\ runs[a].index = runs[b].index
      /\ runs[a].step = runs[b].step )
    => /\ runs[a].value = runs[b].value
       /\ runs[a].phase = "running" => frames[a] = frames[b]

\* C11 witness: two runs with the same inputs have returned a result with
\* several profiles, and a third run was made as well
DeterministicWitness ==
  \E a, b \in RunIds :
    /\ a # b
    /\ Done(a) /\ Done(b)
    /\ started = MaxRuns
    /\ runs[a].fingerprintData = runs[b].fingerprintData
    /\ runs[a].pageContext = runs[b].pageContext
    /\ runs[a].value # TypeError
    /\ Len(runs[a].value.results) >= 2
    /\ runs[a].value.allSignals # << >>

\* C17: no call changes its inputs: the array ALL_TARGET_PROFILES always
\* holds the declared profiles in the declared order, no step changes the
\* bundle, and a call on a detector (detectAll, detectProfile) leaves the page
\* context of that detector as it was; quickDetect is handed none.
InputsUnchanged ==
  /\ [](catalog = ALL_TARGET_PROFILES)
  /\ [][ /\ catalog' = catalog
         /\ fingerprintData' = fingerprintData
         /\ call'[1] \in { "detectAll", "detectProfile" } => pageContext' = pageContext
       ]_vars

\* C17 witness: detectAll returned results that the sort put in another order
\* than the catalog, over a bundle with localStorage (so storageKeys was
\* sliced), and the catalog is as declared
InputsUnchangedWitness ==
  /\ ReturnedFull
  /\ fingerprintData.storage.localStorage
  /\ \E i, j \in DOMAIN ret.results :
       i < j /\ CatalogIndex(ret.results[i].profile) > CatalogIndex(ret.results[j].profile)
  /\ \A i \in DOMAIN ret.results : Len(ret.results[i].profile.storageKeys) >= 7
  /\ catalog = ALL_TARGET_PROFILES
  /\ pageContext # undefined

\* what a call with the inputs of host r, running alone over the declared
\* catalog, holds in its local arrays when it is at the point where r is
AloneFrame(r) ==
  LET fd      == runs[r].fingerprintData
      ctx     == runs[r].pageContext
      profile == ALL_TARGET_PROFILES[runs[r].index]
      before  == [ i \in 1..(runs[r].index - 1) |->
                     detectProfile(fd, ctx, ALL_TARGET_PROFILES[i]) ]
      last    == \* the signal lists left by the profile before this one
                 IF runs[r].index = 1 THEN EmptyFrame
                 ELSE LET q == ALL_TARGET_PROFILES[runs[r].index - 1]
                      IN  [ results |-> << >>,
                            domainSignals |-> checkDomains(ctx, q),
                            scriptSignals |-> checkScripts(ctx, q),
                            fpSignals |-> checkFingerprintMethods(fd, q),
                            storageSignals |-> checkStorageKeys(fd, q) ]
      past(steps) == runs[r].step \in steps
  IN  [ results |-> SelectSeq(before, Surfaced),
        domainSignals |->
          IF past({ "scripts", "fingerprint", "storage", "score" })
          THEN checkDomains(ctx, profile) ELSE last.domainSignals,
        scriptSignals |->
          IF past({ "fingerprint", "storage", "score" })
          THEN checkScripts(ctx, profile) ELSE last.scriptSignals,
        fpSignals |->
          IF past({ "storage", "score" })
          THEN checkFingerprintMethods(fd, profile) ELSE last.fpSignals,
        storageSignals |->
          IF past({ "score" })
          THEN checkStorageKeys(fd, profile) ELSE last.storageSignals ]

\* C18: every call that has ended, whatever steps of other calls came between
\* its own, has the value that detectAll gives for its bundle and its page
\* context when it runs alone over the declared catalog; and a call in
\* progress holds what it would hold at that point when running alone.
RunsMatchAlone ==
  \A r \in RunIds :
    /\ Done(r) =>
         runs[r].value = detectAll(runs[r].fingerprintData, runs[r].pageContext)
    /\ (runs[r].phase = "running" /\ runs[r].step # "aggregate") =>
         frames[r] = AloneFrame(r)
    /\ (runs[r].phase = "running" /\ runs[r].step = "aggregate") =>
         aggregate(frames[r].results) =
           detectAll(runs[r].fingerprintData, runs[r].pageContext)

\* C18 witness: two calls with different inputs have both returned a result,
\* each after steps of the other came between its own
RunsMatchAloneWitness ==
  \E a, b \in RunIds :
    /\ Done(a) /\ Done(b)
    /\ runs[a].overlapped /\ runs[b].overlapped
    /\ runs[a].fingerprintData # runs[b].fingerprintData
    /\ runs[a].value # TypeError /\ runs[b].value # TypeError
    /\ runs[a].value.results # << >> /\ runs[b].value.results # << >>
    /\ runs[a].value # runs[b].value

\* C19: a failure in a section of collectFingerprint is absorbed: the promise
\* of collectFingerprint never rejects.
CollectorAbsorbsFailures == collector.outcome # "rejected"

\* the pairs << observed script URL, indicator >> in which the indicator occurs
\* in the URL as a run of consecutive characters
ScriptSubstringPairs ==
  { found : found \in
      { pair \in Range(ScriptPool) \X CatalogIndicators :
          \E i \in 1..(Len(pair[1]) + 1), j \in 0..Len(pair[1]) :
            SubSeq(pair[1], i, j) = pair[2] } }

\* some entry of pageContext.scripts contains the indicator
ObservedScript(indicator) ==
  /\ pageContext # undefined
  /\ \E e \in DOMAIN pageContext.scripts :
       << pageContext.scripts[e], indicator >> \in ScriptSubstringPairs

\* C21: the script evaluator emits exactly one signal per declared JS library
\* of the profile, in declaration order; found holds iff an entry of
\* pageContext.scripts contains the library as a substring (whatever
\* pageContext.domains holds); the severity is critical when found and low
\* otherwise.  The found ones are the script signals of the returned result.
ScriptEvaluatorRule ==
  call[1] # "new" =>
    /\ \A q \in CalledProfiles :
         LET libs    == q.trackingInfra.jsLibraries
             signals == checkScripts(pageContext, q)
         IN  /\ Len(signals) = Len(libs)
             /\ \A k \in DOMAIN signals :
                  /\ signals[k].type = "script"
                  /\ signals[k].name = libs[k]
                  /\ signals[k].found <=> ObservedScript(libs[k])
                  /\ signals[k].severity =
                       (IF ObservedScript(libs[k]) THEN "critical" ELSE "low")
    /\ ReturnedResult =>
         SelectSeq(ret.signals, LAMBDA x : x.type = "script") =
           SelectSeq(checkScripts(pageContext, ret.profile), LAMBDA x : x.found)

\* C21 witness: Facebook evaluated over a page whose domains list
\* connect.facebook.net, itself a declared JS library of the profile, and
\* whose scripts hold only the Google Analytics URL: no script signal of the
\* profile is found although the domain is observed, while over the same page
\* the library analytics.js of Google is found with severity critical
ScriptEvaluatorWitness ==
  /\ call = << "detectProfile", "facebook" >>
  /\ ReturnedResult
  /\ pageContext # undefined
  /\ \E e \in DOMAIN pageContext.domains : pageContext.domains[e] = "connect.facebook.net"
  /\ pageContext.scripts = << ScriptPool[1] >>
  /\ LET signals == checkScripts(pageContext, FacebookProfile)
     IN  /\ \E k \in DOMAIN signals : signals[k].name = "connect.facebook.net"
         /\ \A k \in DOMAIN signals : ~signals[k].found /\ signals[k].severity = "low"
  /\ \A k \in DOMAIN ret.signals : ret.signals[k].type # "script"
  /\ LET signals == checkScripts(pageContext, GoogleProfile)
     IN  \E k \in DOMAIN signals :
           /\ signals[k].name = "analytics.js"
           /\ signals[k].found
           /\ signals[k].severity = "critical"

\* the capability flags whose signal depends on the bundle, the ones whose
\* signal is emitted whenever declared, and the name and severity of the
\* signal of each
GatedMethods == { "canvas", "webgl", "audio", "battery" }
UngatedMethods == { "fonts", "behavioral" }
MethodSignalName ==
  [ canvas |-> "Canvas Fingerprinting", webgl |-> "WebGL Fingerprinting",
    audio |-> "Audio Fingerprinting", fonts |-> "Font Enumeration",
    battery |-> "Battery API", behavioral |-> "Behavioral Tracking" ]
MethodSeverity ==
  [ canvas |-> "high", webgl |-> "high", behavioral |-> "high",
    audio |-> "medium", fonts |-> "medium", battery |-> "medium" ]

\* C22: whenever the fingerprint-method evaluator returns, every signal it
\* emits has type fingerprint, found = true, and is the signal of a flag the
\* profile declares true, with severity high for canvas / webgl / behavioral
\* and medium for audio / fonts / battery; the signal of canvas, webgl, audio
\* or battery is emitted iff the flag is declared and the bundle reports the
\* capability supported; the signal of fonts or behavioral is emitted iff
\* the flag is declared; no flag emits more than one signal and a flag
\* declared false (or sensors, webrtc) emits none.  These are the fingerprint
\* signals of the returned result.
FingerprintEvaluatorRule ==
  call[1] # "new" =>
    /\ \A q \in CalledProfiles :
         ~FingerprintReadThrows(fingerprintData, q) =>
           LET signals == checkFingerprintMethods(fingerprintData, q)
               emits(f) == \E k \in DOMAIN signals : signals[k].name = MethodSignalName[f]
           IN  /\ \A k \in DOMAIN signals :
                    /\ signals[k].type = "fingerprint"
                    /\ signals[k].found
                    /\ \E f \in GatedMethods \cup UngatedMethods :
                         /\ signals[k].name = MethodSignalName[f]
                         /\ signals[k].severity = MethodSeverity[f]
                         /\ q.fingerprintMethods[f]
               /\ \A k, l \in DOMAIN signals : signals[k].name = signals[l].name => k = l
               /\ \A f \in GatedMethods :
                    emits(f) <=> (q.fingerprintMethods[f] /\ fingerprintData[f].supported)
               /\ \A f \in UngatedMethods : emits(f) <=> q.fingerprintMethods[f]
    /\ ReturnedResult =>
         SelectSeq(ret.signals, LAMBDA x : x.type = "fingerprint") =
           checkFingerprintMethods(fingerprintData, ret.profile)

\* C22 witness: TikTok (sensors declared, webrtc not) evaluated over a bundle
\* that supports canvas and battery but neither webgl nor audio: exactly the
\* canvas, fonts, battery and behavioral signals are emitted
FingerprintEvaluatorWitness ==
  /\ call = << "detectProfile", "tiktok" >>
  /\ ReturnedResult
  /\ fingerprintData.canvas.supported /\ fingerprintData.battery.supported
  /\ ~fingerprintData.webgl.supported /\ ~fingerprintData.audio.supported
  /\ TikTokProfile.fingerprintMethods.sensors
  /\ LET signals == SelectSeq(ret.signals, LAMBDA x : x.type = "fingerprint")
     IN  { signals[k].name : k \in DOMAIN signals } =
           { "Canvas Fingerprinting", "Font Enumeration", "Battery API",
             "Behavioral Tracking" }

\* C23: whenever the storage-key evaluator returns, it emits nothing when
\* storage.localStorage is false, and otherwise one signal for each of the
\* first min(10, number of declared keys) storage keys of the profile, in
\* declaration order, each with found = false and severity medium, whatever
\* the cookies and localStorage lists of the page context hold; the returned
\* result carries no storage signal.
StorageEvaluatorRule ==
  call[1] # "new" =>
    /\ \A q \in CalledProfiles :
         ~StorageReadThrows(fingerprintData) =>
           LET signals == checkStorageKeys(fingerprintData, q)
               expected == IF Len(q.storageKeys) < 10 THEN Len(q.storageKeys) ELSE 10
           IN  IF ~fingerprintData.storage.localStorage THEN signals = << >>
               ELSE /\ Len(signals) = expected
                    /\ \A k \in DOMAIN signals :
                         /\ signals[k].type = "storage"
                         /\ signals[k].name = q.storageKeys[k]
                         /\ ~signals[k].found
                         /\ signals[k].severity = "medium"
    /\ ReturnedResult => \A k \in DOMAIN ret.signals : ret.signals[k].type # "storage"

\* C23 witness: detectAll over a bundle with localStorage available and a page
\* whose cookies and localStorage lists hold cna, the first declared key of
\* AliExpress (26 declared keys, 10 signals) next to TikTok (7 declared keys,
\* 7 signals): the signal of cna is still not found
StorageEvaluatorWitness ==
  /\ call = << "detectAll" >>
  /\ ReturnedFull
  /\ fingerprintData.storage.localStorage
  /\ pageContext # undefined
  /\ \E e \in DOMAIN pageContext.cookies : pageContext.cookies[e] = "cna"
  /\ \E e \in DOMAIN pageContext.localStorage : pageContext.localStorage[e] = "cna"
  /\ Len(AliExpressProfile.storageKeys) = 26
  /\ LET signals == checkStorageKeys(fingerprintData, AliExpressProfile)
     IN  Len(signals) = 10 /\ signals[1].name = "cna" /\ ~signals[1].found
  /\ Len(checkStorageKeys(fingerprintData, TikTokProfile)) = 7
  /\ \A k \in DOMAIN ret.allSignals : ret.allSignals[k].type # "storage"

\* the keys of the advisories that are not specific to a profile id, in the
\* order in which generateRecommendations considers them
GeneralAdvisories ==
  << "use-container", "block-domains", "clear-cookies", "spoof-fingerprint",
     "critical-trackers" >>

\* whether the general advisory with this key is due in the returned result
AdvisoryDue(key) ==
  CASE key = "use-container"     -> ret.profile.countermeasures.useContainer
    [] key = "block-domains"     -> ret.profile.countermeasures.blockDomains
    [] key = "clear-cookies"     -> ret.profile.countermeasures.clearCookies
    [] key = "spoof-fingerprint" -> ret.profile.countermeasures.spoofFingerprint
    [] key = "critical-trackers" ->
         \E k \in DOMAIN ret.signals : ret.signals[k].severity = "critical"

\* the keys of the returned recommendations
RecommendationKeys == [ i \in DOMAIN ret.recommendations |-> ret.recommendations[i][1] ]

\* C24: the recommendations of a detectProfile result are the first 5 entries
\* (all of them if fewer) of: the container, domain-block, cookie-clear and
\* fingerprint-spoof advisories, each iff its countermeasure flag is set,
\* then the critical-signal summary iff a found signal of severity critical
\* exists, then the advisories specific to the profile id; in that order.
RecommendationsRule ==
  ReturnedResult =>
    LET due      == SelectSeq(GeneralAdvisories, AdvisoryDue)
        specific == SpecificRecommendations(ret.profile.id)
        all      == due \o [ i \in DOMAIN specific |-> specific[i][1] ]
    IN  /\ Len(ret.recommendations) = (IF Len(all) < 5 THEN Len(all) ELSE 5)
        /\ \A i \in DOMAIN ret.recommendations : RecommendationKeys[i] = all[i]

\* C24 witness: Facebook with a tracking script observed: four countermeasure
\* advisories, the critical-signal summary and two advisories specific to
\* Facebook are generated, the first five are returned and both specific
\* advisories are cut
RecommendationsWitness ==
  /\ call = << "detectProfile", "facebook" >>
  /\ ReturnedResult
  /\ \E k \in DOMAIN ret.signals : ret.signals[k].severity = "critical"
  /\ Len(SpecificRecommendations("facebook")) = 2
  /\ RecommendationKeys = GeneralAdvisories

\* C25: advisories specific to the profile id are generated exactly for the
\* five catalog ids (aliexpress, amazon, facebook, google, tiktok): whenever
\* fewer than five general advisories are due, the returned list goes on
\* beyond them iff the profile is one of the catalog.
SpecificAdvisoriesForCatalogIds ==
  LET due == SelectSeq(GeneralAdvisories, AdvisoryDue)
  IN  (ReturnedResult /\ Len(due) < 5) =>
        (ret.profile.id \in CatalogIds <=> Len(ret.recommendations) > Len(due))

\* C26: in every FullDetectionResult a non-empty criticalTargets implies that
\* overallRisk is HIGH or CRITICAL; and when overallRisk is LOW or MEDIUM,
\* criticalTargets is empty and no surfaced result has riskScore >= 50 or a
\* profile of level CRITICAL.
CriticalTargetsImplyHighRisk ==
  ReturnedFull =>
    /\ ret.criticalTargets # << >> => ret.overallRisk \in { "HIGH", "CRITICAL" }
    /\ ret.overallRisk \in { "LOW", "MEDIUM" } =>
         /\ ret.criticalTargets = << >>
         /\ \A i \in DOMAIN ret.results :
              /\ ret.results[i].riskScore < 50
              /\ ret.results[i].profile.riskLevel # "CRITICAL"

\* C26 witness: the only critical target is a profile of level CRITICAL that
\* was surfaced with a riskScore below 50 and a total below 50: the level of
\* the profile alone makes the overall risk HIGH
CriticalTargetsImplyHighRiskWitness ==
  /\ ReturnedFull
  /\ Len(ret.criticalTargets) = 1
  /\ ret.criticalTargets[1].riskLevel = "CRITICAL"
  /\ ret.totalRiskScore < 50
  /\ \A i \in DOMAIN ret.results : ret.results[i].riskScore < 50
  /\ ret.overallRisk = "HIGH"

\* the page context this holds every domain entry and every script entry of
\* the page context other (or other is absent)
ContainedIn(other, this) ==
  \/ other = undefined
  \/ /\ this # undefined
     /\ Range(other.domains) \subseteq Range(this.domains)
     /\ Range(other.scripts) \subseteq Range(this.scripts)

\* the profiles of a list of results
ProfilesOf(results) == { results[i].profile : i \in DOMAIN results }

\* C27: evidence is monotone in the page context.  For the bundle of the
\* detector and every page context P that the detector's page context
\* contains: the riskScore and the confidence detectProfile returned are at
\* least those it returns under P and the result is surfaced if it is
\* surfaced under P; the totalRiskScore detectAll returned is at least the
\* one under P and every profile in results under P is in the returned
\* results.
EvidenceMonotone ==
  \A P \in PageContexts :
    ContainedIn(P, pageContext) =>
      /\ (call[1] = "detectProfile" /\ ret # TypeError) =>
           LET under == detectProfile(fingerprintData, P, ret.profile)
           IN  /\ under.riskScore <= ret.riskScore
               /\ under.confidence <= ret.confidence
               /\ Surfaced(under) => Surfaced(ret)
      /\ (call[1] = "detectAll" /\ ret # TypeError) =>
           LET under == detectAll(fingerprintData, P)
           IN  /\ under.totalRiskScore <= ret.totalRiskScore
               /\ ProfilesOf(under.results) \subseteq ProfilesOf(ret.results)
               /\ \A i \in DOMAIN under.results : \E j \in DOMAIN ret.results :
                    /\ ret.results[j].profile = under.results[i].profile
                    /\ ret.results[j].riskScore >= under.results[i].riskScore
                    /\ ret.results[j].confidence >= under.results[i].confidence

\* C27 witness: a detectAll result over a page context that contains a
\* smaller, present page context under which fewer profiles are surfaced and
\* the total is strictly smaller, but not zero
EvidenceMonotoneWitness ==
  /\ call = << "detectAll" >>
  /\ ReturnedFull
  /\ \E P \in PageContexts \ { undefined } :
       /\ ContainedIn(P, pageContext)
       /\ LET under == detectAll(fingerprintData, P)
          IN  /\ 0 < under.totalRiskScore
              /\ under.totalRiskScore < ret.totalRiskScore
              /\ ProfilesOf(under.results) # ProfilesOf(ret.results)
              /\ ProfilesOf(under.results) # { }

\* the bundle of the detector with storage.localStorage switched off
StorageOff == [ fingerprintData EXCEPT !.storage.localStorage = FALSE ]

\* C28: storage evidence never adds risk and only dilutes confidence.  With
\* storage.localStorage true, the riskScore and detected that detectProfile
\* returned are those it returns with the flag false and the confidence is
\* not greater; the profiles detectAll returned are among those it returns
\* with the flag false; and no returned signals or allSignals list holds a
\* signal of type storage.
StorageOnlyDilutes ==
  /\ (ReturnedResult \/ ReturnedFull) =>
       \A k \in DOMAIN (IF ReturnedFull THEN ret.allSignals ELSE ret.signals) :
         (IF ReturnedFull THEN ret.allSignals ELSE ret.signals)[k].type # "storage"
  /\ ReturnedFull =>
       \A i \in DOMAIN ret.results : \A k \in DOMAIN ret.results[i].signals :
         ret.results[i].signals[k].type # "storage"
  /\ (fingerprintData.storage # undefined /\ fingerprintData.storage.localStorage) =>
       /\ (call[1] = "detectProfile" /\ ret # TypeError) =>
            LET off == detectProfile(StorageOff, pageContext, ret.profile)
            IN  /\ ret.riskScore = off.riskScore
                /\ ret.detected = off.detected
                /\ ret.confidence <= off.confidence
       /\ (call[1] = "detectAll" /\ ret # TypeError) =>
            LET off == detectAll(StorageOff, pageContext)
            IN  /\ ProfilesOf(ret.results) \subseteq ProfilesOf(off.results)
                /\ \A i \in DOMAIN ret.results : \E j \in DOMAIN off.results :
                     /\ off.results[j].profile = ret.results[i].profile
                     /\ off.results[j].riskScore = ret.results[i].riskScore
                     /\ off.results[j].confidence >= ret.results[i].confidence

\* C28 witness: a detectAll result with storage.localStorage true that lacks a
\* profile which is surfaced, by its confidence alone, with the flag false,
\* and holds a profile whose confidence is strictly smaller than with the
\* flag false
StorageOnlyDilutesWitness ==
  /\ call = << "detectAll" >>
  /\ ReturnedFull
  /\ fingerprintData.storage.localStorage
  /\ LET off == detectAll(StorageOff, pageContext)
     IN  /\ \E j \in DOMAIN off.results :
              /\ off.results[j].profile \notin ProfilesOf(ret.results)
              /\ ~off.results[j].detected
         /\ \E i \in DOMAIN ret.results : \E j \in DOMAIN off.results :
              /\ off.results[j].profile = ret.results[i].profile
              /\ off.results[j].confidence > ret.results[i].confidence

\* the argument currentSignal of the successive calls of the progress callback
StageOrder ==
  << "Canvas 2D", "WebGL", "AudioContext", "Fonts", "WebRTC", "Media Devices",
     "Hardware", "Navigator", "Sensors", "Battery", "Media Queries", "Storage",
     "Performance", "Misc", "FingerprintJS", "finalization" >>

\* C29: in a collectFingerprint run the progress callback is invoked in the
\* fixed stage order Canvas, WebGL, Audio, Fonts, WebRTC, Media Devices,
\* Hardware, Navigator, Sensors, Battery, Media Queries, Storage, Performance,
\* Misc, FingerprintJS, finalization; the i-th report carries
\* signalsCollected = i <= totalSignals = 16 and progress = round(100 i / 16),
\* which is non-decreasing, within 0..100 and 100 only on the 16th report; a
\* run that completes has made exactly 16 reports, also when FingerprintJS
\* failed to load or detect and fpjs is null.
ProgressReports ==
  LET reports == collector.reports
  IN  /\ Len(reports) = collector.signalsCollected
      /\ Len(reports) <= 16
      /\ \A i \in DOMAIN reports :
           /\ reports[i].currentSignal = StageOrder[i]
           /\ reports[i].signalsCollected = i
           /\ reports[i].totalSignals = 16
           /\ reports[i].progress = (200 * i + 16) \div 32
           /\ reports[i].progress \in 0..100
           /\ reports[i].progress = 100 <=> i = 16
           /\ i > 1 => reports[i - 1].progress <= reports[i].progress
      /\ collector.outcome = "resolved" =>
           Len(reports) = 16 /\ reports[16].progress = 100
      /\ collector.outcome = "rejected" => Len(reports) < 15

\* C29 witness: a run that completed after FingerprintJS failed: fpjs is null
\* and the 16th report, finalization with progress 100, was made
ProgressReportsWitness ==
  /\ collector.outcome = "resolved"
  /\ collector.fpjs = null
  /\ collector.value.fpjs = null
  /\ Len(collector.reports) = 16
  /\ collector.reports[15].currentSignal = "FingerprintJS"
  /\ collector.reports[16].currentSignal = "finalization"
  /\ collector.reports[16].progress = 100
  /\ collector.reports[2].progress = 13

\* C30: the reference FingerprintJSLoaded is a write-once cache under every
\* interleaving of loadFingerprintJS calls.  Once it is set it keeps its
\* value; a call made while it is set returns it without importing; an
\* import that fails leaves the reference as it is and makes its call return
\* null (no call throws); an import that succeeds sets the reference to the
\* module and makes its call return the module; so whenever some call has
\* returned the module, the reference holds that module, however many
\* imports overlapped.
LoadOnceCache ==
  /\ [](\A c \in LoadIds :
          loads[c].pc = "returned" =>
            /\ loads[c].value \in { null, FingerprintJSModule }
            /\ loads[c].value # null => FingerprintJSLoaded = loads[c].value
            /\ ~loads[c].imported => loads[c].value = FingerprintJSModule
            /\ loads[c].value = null => loads[c].imported)
  /\ [][ /\ FingerprintJSLoaded # null => FingerprintJSLoaded' = FingerprintJSLoaded
         /\ \A c \in LoadIds :
              /\ (loadsStarted' # loadsStarted /\ loads'[c] # loads[c]
                    /\ FingerprintJSLoaded # null) =>
                   /\ loads'[c].pc = "returned"
                   /\ ~loads'[c].imported
                   /\ loads'[c].value = FingerprintJSLoaded
              /\ (loads[c].pc = "importing" /\ loads'[c].pc = "returned") =>
                   IF loads'[c].value = null
                   THEN FingerprintJSLoaded' = FingerprintJSLoaded
                   ELSE FingerprintJSLoaded' = FingerprintJSModule ]_vars

\* C30 witness: two imports overlapped, one resolved and the other rejected
\* (its call returned null), the reference holds the module, and a third
\* call made afterwards returned it without importing
LoadOnceCacheWitness ==
  /\ FingerprintJSLoaded = FingerprintJSModule
  /\ \E a, b, c \in LoadIds :
       /\ loads[a] = [ pc |-> "returned", imported |-> TRUE, value |-> FingerprintJSModule ]
       /\ loads[b] = [ pc |-> "returned", imported |-> TRUE, value |-> null ]
       /\ loads[c] = [ pc |-> "returned", imported |-> FALSE, value |-> FingerprintJSModule ]


====
